---- MODULE Spec2Model ----
(***************************************************************************)
(* Dependency-string classification (src/src/utils.py) and the dependency  *)
(* aggregation / inspection layer built on it (src/analysis.py).           *)
(*                                                                         *)
(* Python strings are modelled as sequences of one-character strings, so   *)
(* that strip(), split(), startswith(), lower() and the regular-expression *)
(* split are computed character by character as the code computes them.    *)
(* Python's None is the one-element sequence <<"None">>, whose element is  *)
(* not a character; str(None) is the four characters N, o, n, e.           *)
(***************************************************************************)
EXTENDS Integers, Sequences, FiniteSets, TLC

VARIABLES dep_str, parsed, reparsed, pc,
          nodes_dict, dep_analysis, dep_name, result,
          pattern, wildcard_results, full_rank_map,
          content, new_deps,
          stat_nodes, all_data, node_key, routes_count,
          page_num, retries, attempt, requests, returned,
          registry, max_workers, total_pages, futures, fetched_nodes, failed_pages,
          retry_index, gave_up, page_calls,
          selected_nodes, working_nodes, top_n,
          repository_url, raw_urls,
          nodes_json, requirements_cache, original_deps_backup, update_stats,
          original_json_deps, future_to_node, completed, fetched

parseVars == <<dep_str, parsed, reparsed>>
aggVars == <<nodes_dict, dep_analysis, dep_name, result>>

vars == <<dep_str, parsed, reparsed, pc, nodes_dict, dep_analysis, dep_name, result,
          pattern, wildcard_results, full_rank_map, content, new_deps,
          stat_nodes, all_data, node_key, routes_count,
          page_num, retries, attempt, requests, returned,
          registry, max_workers, total_pages, futures, fetched_nodes, failed_pages,
          retry_index, gave_up, page_calls,
          selected_nodes, working_nodes, top_n, repository_url, raw_urls,
          nodes_json, requirements_cache, original_deps_backup, update_stats,
          original_json_deps, future_to_node, completed, fetched>>

\* every variable outside the classifier and the aggregate / inspect session stays as
\* it is, those of the part g of the program excepted. gave_up records the pages
\* for which a call of fetch_page has returned None, page_calls[p] the results of
\* the calls of fetch_page(p) so far, in order.
UnchangedExcept(g) ==
    /\ IF g \in {"wildcard", "session"} THEN TRUE
       ELSE UNCHANGED <<pattern, wildcard_results>>
    /\ IF g = "ranks" THEN TRUE ELSE UNCHANGED full_rank_map
    /\ IF g = "requirements" THEN TRUE ELSE UNCHANGED <<content, new_deps>>
    /\ IF g = "stats" THEN TRUE
       ELSE UNCHANGED <<stat_nodes, all_data, node_key, routes_count>>
    /\ IF g = "fetch_page" THEN TRUE
       ELSE UNCHANGED <<page_num, retries, attempt, requests, returned>>
    /\ IF g = "fetch" THEN TRUE
       ELSE UNCHANGED <<registry, max_workers, total_pages, futures, fetched_nodes,
                        failed_pages, retry_index, gave_up, page_calls>>
    /\ IF g = "session" THEN TRUE ELSE UNCHANGED <<selected_nodes, working_nodes, top_n>>
    /\ IF g = "raw_url" THEN TRUE ELSE UNCHANGED <<repository_url, raw_urls>>
    /\ IF g = "update" THEN TRUE
       ELSE UNCHANGED <<nodes_json, requirements_cache, original_deps_backup, update_stats,
                        original_json_deps, future_to_node, completed, fetched>>

(***************************************************************************)
(* Bounds                                                                  *)
(***************************************************************************)
MaxTok == 4
MaxNodes == 2
MaxLines == 3
MaxWildLines == 2
MaxRanked == 3
MaxReqTok == 4
MaxUrlTok == 2
MaxFeedRepos == 2
MaxStatNodes == 1
MaxRetries == 5
MaxPages == 3
MaxWorkers == 2
MaxSessionNodes == 2
MaxRawTok == 5
MaxUpdateNodes == 1
MaxUpdateIds == 2

(***************************************************************************)
(* Python values and string primitives                                     *)
(***************************************************************************)
None == <<"None">>

Str(v) == IF v = None THEN <<"N", "o", "n", "e">> ELSE v

IsSpace(c) == c \in {" ", "\t"}

LowerChar(c) ==
    CASE c = "A" -> "a"
      [] c = "B" -> "b"
      [] c = "N" -> "n"
      [] OTHER -> c

Lower(s) == [i \in 1..Len(s) |-> LowerChar(s[i])]

RECURSIVE LStrip(_)
LStrip(s) == IF s # <<>> /\ IsSpace(Head(s)) THEN LStrip(Tail(s)) ELSE s

RECURSIVE RStrip(_)
RStrip(s) == IF s # <<>> /\ IsSpace(s[Len(s)]) THEN RStrip(SubSeq(s, 1, Len(s) - 1)) ELSE s

Strip(s) == RStrip(LStrip(s))

StartsWith(s, p) == Len(s) >= Len(p) /\ SubSeq(s, 1, Len(p)) = p

\* index of the first occurrence of p in s, 0 when there is none
Find(s, p) ==
    LET hits == {i \in 1..(Len(s) - Len(p) + 1) : SubSeq(s, i, i + Len(p) - 1) = p}
    IN IF hits = {} THEN 0 ELSE CHOOSE i \in hits : \A j \in hits : i <= j

Contains(s, p) == Find(s, p) # 0

\* s.split(p)[0]
SplitFirst(s, p) == IF Contains(s, p) THEN SubSeq(s, 1, Find(s, p) - 1) ELSE s

VersionOps == {"<", ">", "=", "!", "~"}

\* re.split(r'[<>=!~]', s)[0]
ReSplitFirst(s) ==
    LET hits == {i \in 1..Len(s) : s[i] \in VersionOps}
    IN IF hits = {} THEN s
       ELSE SubSeq(s, 1, (CHOOSE i \in hits : \A j \in hits : i <= j) - 1)

\* re.search(r'[<>=!~]+(.+)', s): an operator character followed by at least one character
HasVersionMatch(s) == \E i \in 1..(Len(s) - 1) : s[i] \in VersionOps

RECURSIVE Flatten(_)
Flatten(ts) == IF ts = <<>> THEN <<>> ELSE Head(ts) \o Flatten(Tail(ts))

HASH == <<"#">>
DASHDASH == <<"-", "-">>
GITPLUS == <<"g", "i", "t", "+">>
AT == <<" ", "@", " ">>
ATGITPLUS == <<" ", "@", " ", "g", "i", "t", "+">>

(***************************************************************************)
(* parse_dependency_string                                                 *)
(***************************************************************************)
GitPlusPrefix == <<"git+ prefix">>
AtGitPlusStyle == <<"@ git+ style">>
AtStyle == <<"@ style">>

InitResult(d) ==
    [is_comment |-> FALSE, is_pip_command |-> FALSE, is_git_dep |-> FALSE,
     git_dep_type |-> None, base_name |-> None, cleaned_str |-> None,
     original_str |-> d, skip |-> FALSE]

\* mutation: the strip() of line 55 is dropped
TrimmedStr_NoStrip(d) == Str(d)

TrimmedStr(d) == Strip(Str(d))

\* mutation: the strip() after the split of line 72 is dropped
StripInlineComment_NoStrip(s) == IF Contains(s, HASH) THEN SplitFirst(s, HASH) ELSE s

StripInlineComment(s) == IF Contains(s, HASH) THEN Strip(SplitFirst(s, HASH)) ELSE s

\* mutation: the inline comment of a flag line is stripped as well
PipCleaned_Stripped(s) == StripInlineComment(s)

\* mutation: the cleaned_str of a flag line loses its leading '--'
PipCleaned_NoDashes(s) == Strip(SubSeq(s, 3, Len(s)))

PipCleaned(s) == s

AtBaseName(cleaned) == Lower(Strip(SplitFirst(cleaned, AT)))

\* mutation: the lower() of line 99 is dropped
RegularBaseName_NoLower(cleaned) == Strip(ReSplitFirst(cleaned))

RegularBaseName(cleaned) == Strip(ReSplitFirst(Lower(cleaned)))

\* mutation: the ' @ ' tests come before the 'git+' prefix test
ClassifyCleaned_AtFirst(res, cleaned) ==
    IF Contains(cleaned, ATGITPLUS)
    THEN [res EXCEPT !.is_git_dep = TRUE, !.git_dep_type = AtGitPlusStyle,
                     !.base_name = AtBaseName(cleaned)]
    ELSE IF Contains(cleaned, AT)
    THEN [res EXCEPT !.is_git_dep = TRUE, !.git_dep_type = AtStyle,
                     !.base_name = AtBaseName(cleaned)]
    ELSE IF StartsWith(cleaned, GITPLUS)
    THEN [res EXCEPT !.is_git_dep = TRUE, !.git_dep_type = GitPlusPrefix, !.base_name = cleaned]
    ELSE [res EXCEPT !.base_name = RegularBaseName(cleaned)]

ClassifyCleaned(res, cleaned) ==
    IF StartsWith(cleaned, GITPLUS)
    THEN [res EXCEPT !.is_git_dep = TRUE, !.git_dep_type = GitPlusPrefix, !.base_name = cleaned]
    ELSE IF Contains(cleaned, ATGITPLUS)
    THEN [res EXCEPT !.is_git_dep = TRUE, !.git_dep_type = AtGitPlusStyle,
                     !.base_name = AtBaseName(cleaned)]
    ELSE IF Contains(cleaned, AT)
    THEN [res EXCEPT !.is_git_dep = TRUE, !.git_dep_type = AtStyle,
                     !.base_name = AtBaseName(cleaned)]
    ELSE [res EXCEPT !.base_name = RegularBaseName(cleaned)]

CommentResult(res) == [res EXCEPT !.is_comment = TRUE, !.skip = TRUE]

parse_dependency_string(d) ==
    LET res == InitResult(d)
        s == TrimmedStr(d)
    IN IF StartsWith(s, HASH) THEN CommentResult(res)
       ELSE IF StartsWith(s, DASHDASH)
       THEN [res EXCEPT !.is_pip_command = TRUE, !.cleaned_str = PipCleaned(s)]
       ELSE LET cleaned == StripInlineComment(s)
            IN IF cleaned = <<>> THEN [res EXCEPT !.skip = TRUE]
               ELSE ClassifyCleaned([res EXCEPT !.cleaned_str = cleaned], cleaned)

(***************************************************************************)
(* Inputs of the classifier: lines built from at most MaxTok tokens        *)
(***************************************************************************)
Tokens == {<<" ">>, HASH, <<"-">>, GITPLUS, AT, <<"a">>, <<"B">>, <<"=">>, <<"<">>}

NotParsed == InitResult(<<"unset">>)

NoValue == <<"unset">>

\* the parts of the program other than g have not run
IdleExcept(g) ==
    /\ g = "wildcard" \/ (pattern = None /\ wildcard_results = None)
    /\ g = "ranks" \/ full_rank_map = None
    /\ g = "requirements" \/ (content = None /\ new_deps = None)
    /\ g = "stats" \/ (stat_nodes = <<>> /\ all_data = <<>> /\ node_key = None
                          /\ routes_count = 0)
    /\ g = "fetch_page" \/ (page_num = 0 /\ retries = 0 /\ attempt = 0
                               /\ requests = <<>> /\ returned = NoValue)
    /\ g = "fetch" \/ (registry = <<>> /\ max_workers = 0 /\ total_pages = 0
                          /\ futures = <<>> /\ fetched_nodes = <<>>
                          /\ failed_pages = <<>> /\ retry_index = 0 /\ gave_up = {}
                          /\ page_calls = <<>>)
    /\ g = "session" \/ (selected_nodes = None /\ working_nodes = None /\ top_n = None)
    /\ g = "raw_url" \/ (repository_url = <<>> /\ raw_urls = NoValue)
    /\ g = "update" \/ (/\ nodes_json = <<>>
                         /\ requirements_cache = <<>>
                         /\ original_deps_backup = <<>>
                         /\ update_stats = None
                         /\ original_json_deps = <<>>
                         /\ future_to_node = <<>>
                         /\ completed = 0
                         /\ fetched = None)
IdleParse == dep_str = <<>> /\ parsed = NotParsed /\ reparsed = NotParsed

InitParse ==
    /\ \E n \in 0..MaxTok : \E t \in [1..n -> Tokens] : dep_str = Flatten(t)
    /\ parsed = NotParsed
    /\ reparsed = NotParsed
    /\ IdleExcept("none")
    /\ pc = "raw"
    /\ nodes_dict = <<>>
    /\ dep_analysis = None
    /\ dep_name = None
    /\ result = None

\* one call parse_dependency_string(dep_str)
Classify ==
    /\ pc = "raw"
    /\ parsed' = parse_dependency_string(dep_str)
    /\ pc' = "parsed"
    /\ UNCHANGED <<dep_str, reparsed, aggVars>>
    /\ UnchangedExcept("none")

\* a second call on the cleaned_str of the first result
Reclassify ==
    /\ pc = "parsed"
    /\ reparsed' = parse_dependency_string(parsed.cleaned_str)
    /\ pc' = "reparsed"
    /\ UNCHANGED <<dep_str, parsed, aggVars>>
    /\ UnchangedExcept("none")

NextParse == Classify \/ Reclassify

SpecParse == InitParse /\ [][NextParse]_vars

(***************************************************************************)
(* Entities.  nodes_dict is the sequence of the dict's values in insertion *)
(* order.  lv tells whether the node has a usable 'latest_version'         *)
(* ("absent": no key, "null": None or {}), deps_kind what its              *)
(* 'dependencies' value is ("absent": no key, "null": None, "str": a       *)
(* string instead of a list, "list": a list of lines).                     *)
(***************************************************************************)
Node(id, dl, lv, kind, deps) ==
    [id |-> id, name |-> id, downloads |-> dl, lv |-> lv, deps_kind |-> kind,
     dependencies |-> deps]

\* 'latest_version' in node_data and node_data['latest_version']
HasLatestVersion(node) == node.lv = "ok"

\* the keys of a defaultdict / dict are the domain; d[k] += 1
Incr(d, k) == IF k \in DOMAIN d THEN [d EXCEPT ![k] = @ + 1] ELSE d @@ (k :> 1)

\* d[k].add(v) on a defaultdict(set)
AddTo(d, k, v) == IF k \in DOMAIN d THEN [d EXCEPT ![k] = @ \cup {v}] ELSE d @@ (k :> {v})

Range(q) == {q[i] : i \in 1..Len(q)}

\* insertion-ordered key list of a dict
AppendKey(keys, k) == IF k \in Range(keys) THEN keys ELSE Append(keys, k)

\* sorted(items, key=count, reverse=True): stable, equal counts keep their order
RECURSIVE InsertByCount(_, _, _)
InsertByCount(sortedKeys, k, count) ==
    IF sortedKeys = <<>> THEN <<k>>
    ELSE IF count[Head(sortedKeys)] >= count[k]
         THEN <<Head(sortedKeys)>> \o InsertByCount(Tail(sortedKeys), k, count)
         ELSE <<k>> \o sortedKeys

RECURSIVE SortedByCount(_, _)
SortedByCount(keys, count) ==
    IF keys = <<>> THEN <<>>
    ELSE InsertByCount(SortedByCount(SubSeq(keys, 1, Len(keys) - 1), count),
                       keys[Len(keys)], count)

(***************************************************************************)
(* compile_dependencies                                                    *)
(***************************************************************************)
EmptyAcc ==
    [all_dependencies_raw |-> <<>>, base_dependency_count |-> <<>>,
     base_keys |-> <<>>, dependency_versions |-> <<>>,
     nodes_with_deps |-> <<>>, nodes_without_deps |-> <<>>,
     nodes_with_commented_deps |-> <<>>, nodes_with_pip_commands |-> <<>>,
     nodes_with_git_deps |-> <<>>, commented_dependencies |-> <<>>,
     pip_commands |-> <<>>, pip_command_count |-> <<>>, pip_keys |-> <<>>,
     git_dependencies |-> <<>>, git_dependency_count |-> <<>>, git_keys |-> <<>>,
     active_deps |-> <<>>, commented_deps |-> <<>>, node_pip_commands |-> <<>>,
     node_git_deps |-> <<>>]

\* mutation: a base name is counted once per node, however many lines declare it
CountActive_OncePerNode(acc, p) ==
    LET seen == \E i \in 1..Len(acc.active_deps) :
                   parse_dependency_string(acc.active_deps[i]).base_name = p.base_name
    IN [acc EXCEPT !.active_deps = Append(@, p.cleaned_str),
                   !.all_dependencies_raw = Append(@, p.cleaned_str),
                   !.base_dependency_count = IF seen THEN @ ELSE Incr(@, p.base_name),
                   !.base_keys = AppendKey(@, p.base_name),
                   !.dependency_versions = AddTo(@, p.base_name, p.cleaned_str)]

\* lines 344-359: an active line
CountActive(acc, p) ==
    LET g == IF p.is_git_dep
             THEN [acc EXCEPT !.node_git_deps = Append(@, p.cleaned_str),
                              !.git_dependencies = Append(@, p.cleaned_str),
                              !.git_dependency_count = Incr(@, p.git_dep_type),
                              !.git_keys = AppendKey(@, p.git_dep_type)]
             ELSE acc
    IN [g EXCEPT !.active_deps = Append(@, p.cleaned_str),
                 !.all_dependencies_raw = Append(@, p.cleaned_str),
                 !.base_dependency_count = Incr(@, p.base_name),
                 !.base_keys = AppendKey(@, p.base_name),
                 !.dependency_versions = AddTo(@, p.base_name, p.cleaned_str)]

\* mutation: a pip command is appended to the node's active dependencies as well
CountPipCommand_Active(acc, p) ==
    [acc EXCEPT !.node_pip_commands = Append(@, p.cleaned_str),
                !.pip_commands = Append(@, p.cleaned_str),
                !.pip_command_count = Incr(@, p.cleaned_str),
                !.pip_keys = AppendKey(@, p.cleaned_str),
                !.active_deps = Append(@, p.cleaned_str)]

\* lines 333-338: a pip command
CountPipCommand(acc, p) ==
    [acc EXCEPT !.node_pip_commands = Append(@, p.cleaned_str),
                !.pip_commands = Append(@, p.cleaned_str),
                !.pip_command_count = Incr(@, p.cleaned_str),
                !.pip_keys = AppendKey(@, p.cleaned_str)]

\* mutation: the skip test of lines 340-342 is missing
ProcessDep_NoSkip(acc, dep) ==
    LET p == parse_dependency_string(dep) IN
    IF p.is_comment
    THEN [acc EXCEPT !.commented_deps = Append(@, p.original_str),
                     !.commented_dependencies = Append(@, p.original_str)]
    ELSE IF p.is_pip_command THEN CountPipCommand(acc, p)
    ELSE CountActive(acc, p)

\* lines 324-359: the body of the loop over one node's lines
ProcessDep(acc, dep) ==
    LET p == parse_dependency_string(dep) IN
    IF p.is_comment
    THEN [acc EXCEPT !.commented_deps = Append(@, p.original_str),
                     !.commented_dependencies = Append(@, p.original_str)]
    ELSE IF p.is_pip_command THEN CountPipCommand(acc, p)
    ELSE IF p.skip THEN acc
    ELSE CountActive(acc, p)

RECURSIVE ProcessDeps(_, _)
ProcessDeps(acc, deps) ==
    IF deps = <<>> THEN acc ELSE ProcessDeps(ProcessDep(acc, Head(deps)), Tail(deps))

\* lines 361-383: the per-node entries of the pip-command, comment and git lists
NodeLists(acc, node) ==
    LET a1 == IF acc.node_pip_commands # <<>>
              THEN [acc EXCEPT !.nodes_with_pip_commands =
                      Append(@, [id |-> node.id, name |-> node.name,
                                 pip_commands |-> acc.node_pip_commands,
                                 active_deps |-> acc.active_deps])]
              ELSE acc
        a2 == IF acc.commented_deps # <<>>
              THEN [a1 EXCEPT !.nodes_with_commented_deps =
                      Append(@, [id |-> node.id, name |-> node.name,
                                 commented_deps |-> acc.commented_deps,
                                 active_deps |-> acc.active_deps])]
              ELSE a1
    IN IF acc.node_git_deps # <<>>
       THEN [a2 EXCEPT !.nodes_with_git_deps =
               Append(@, [id |-> node.id, name |-> node.name,
                          git_deps |-> acc.node_git_deps,
                          active_deps |-> acc.active_deps])]
       ELSE a2

\* mutation: the else branch of line 391 is missing
Partition_NoElse(acc, node) ==
    IF acc.active_deps # <<>>
    THEN [acc EXCEPT !.nodes_with_deps =
            Append(@, [id |-> node.id, name |-> node.name,
                       dependencies |-> acc.active_deps])]
    ELSE acc

\* lines 385-393: with or without active dependencies
Partition(acc, node) ==
    IF acc.active_deps # <<>>
    THEN [acc EXCEPT !.nodes_with_deps =
            Append(@, [id |-> node.id, name |-> node.name,
                       dependencies |-> acc.active_deps])]
    ELSE [acc EXCEPT !.nodes_without_deps = Append(@, node.id)]

\* lines 361-393: after the loop over the lines of one node
CloseNode(acc, node) == Partition(NodeLists(acc, node), node)

\* mutation: the isinstance(deps, list) test of line 318 is dropped, a string is
\* iterated character by character
ProcessNode_NoListCheck(acc, node) ==
    IF /\ HasLatestVersion(node)
       /\ node.deps_kind \in {"list", "str"}
       /\ Len(node.dependencies) > 0
    THEN CloseNode(ProcessDeps([acc EXCEPT !.active_deps = <<>>, !.commented_deps = <<>>,
                                           !.node_pip_commands = <<>>,
                                           !.node_git_deps = <<>>],
                               IF node.deps_kind = "list" THEN node.dependencies
                               ELSE [i \in 1..Len(node.dependencies) |->
                                       <<node.dependencies[i]>>]), node)
    ELSE [acc EXCEPT !.nodes_without_deps = Append(@, node.id)]

\* lines 311-399: the body of the loop over the nodes
ProcessNode(acc, node) ==
    IF /\ HasLatestVersion(node)
       /\ node.deps_kind = "list"
       /\ Len(node.dependencies) > 0
    THEN CloseNode(ProcessDeps([acc EXCEPT !.active_deps = <<>>, !.commented_deps = <<>>,
                                           !.node_pip_commands = <<>>,
                                           !.node_git_deps = <<>>],
                               node.dependencies), node)
    ELSE [acc EXCEPT !.nodes_without_deps = Append(@, node.id)]

RECURSIVE ProcessNodes(_, _)
ProcessNodes(acc, nodes) ==
    IF nodes = <<>> THEN acc ELSE ProcessNodes(ProcessNode(acc, Head(nodes)), Tail(nodes))

Pairs(keys, d) == [i \in 1..Len(keys) |-> <<keys[i], d[keys[i]]>>]

compile_dependencies(nodes) ==
    LET a == ProcessNodes(EmptyAcc, nodes) IN
    [all_dependencies |-> a.all_dependencies_raw,
     unique_dependencies |-> Range(a.all_dependencies_raw),
     dependency_count |-> a.base_dependency_count,
     sorted_by_frequency |-> Pairs(SortedByCount(a.base_keys, a.base_dependency_count),
                                   a.base_dependency_count),
     dependency_versions |-> a.dependency_versions,
     unique_base_dependencies |-> a.base_keys,
     nodes_with_dependencies |-> a.nodes_with_deps,
     nodes_without_dependencies |-> a.nodes_without_deps,
     nodes_with_commented_dependencies |-> a.nodes_with_commented_deps,
     nodes_with_pip_commands |-> a.nodes_with_pip_commands,
     nodes_with_git_dependencies |-> a.nodes_with_git_deps,
     commented_dependencies |-> a.commented_dependencies,
     unique_commented_dependencies |-> Range(a.commented_dependencies),
     pip_commands |-> a.pip_commands,
     unique_pip_commands |-> a.pip_keys,
     pip_command_count |-> a.pip_command_count,
     sorted_pip_commands |-> Pairs(SortedByCount(a.pip_keys, a.pip_command_count),
                                   a.pip_command_count),
     git_dependencies |-> a.git_dependencies,
     unique_git_dependencies |-> Range(a.git_dependencies),
     git_dependency_count |-> a.git_dependency_count,
     sorted_git_dependency_types |-> Pairs(SortedByCount(a.git_keys, a.git_dependency_count),
                                           a.git_dependency_count),
     total_dependencies |-> Len(a.all_dependencies_raw),
     unique_count |-> Len(a.base_keys),
     unique_raw_count |-> Cardinality(Range(a.all_dependencies_raw)),
     nodes_with_deps_count |-> Len(a.nodes_with_deps),
     nodes_without_deps_count |-> Len(a.nodes_without_deps),
     nodes_with_commented_count |-> Len(a.nodes_with_commented_deps),
     nodes_with_pip_commands_count |-> Len(a.nodes_with_pip_commands),
     nodes_with_git_deps_count |-> Len(a.nodes_with_git_deps)]

(***************************************************************************)
(* calculate_node_ranks                                                    *)
(***************************************************************************)
NoDownloads == -1

\* x[1].get('downloads', 0)
Downloads(node) == IF node.downloads = NoDownloads THEN 0 ELSE node.downloads

\* mutation: the sort is ascending (reverse=True dropped)
RECURSIVE InsertByDownloads_Ascending(_, _)
InsertByDownloads_Ascending(sortedNodes, node) ==
    IF sortedNodes = <<>> THEN <<node>>
    ELSE IF Downloads(Head(sortedNodes)) <= Downloads(node)
         THEN <<Head(sortedNodes)>> \o InsertByDownloads_Ascending(Tail(sortedNodes), node)
         ELSE <<node>> \o sortedNodes

\* sorted(..., key=downloads, reverse=True): stable, equal keys keep their order
RECURSIVE InsertByDownloads(_, _)
InsertByDownloads(sortedNodes, node) ==
    IF sortedNodes = <<>> THEN <<node>>
    ELSE IF Downloads(Head(sortedNodes)) >= Downloads(node)
         THEN <<Head(sortedNodes)>> \o InsertByDownloads(Tail(sortedNodes), node)
         ELSE <<node>> \o sortedNodes

RECURSIVE SortedByDownloads(_)
SortedByDownloads(nodes) ==
    IF nodes = <<>> THEN <<>>
    ELSE InsertByDownloads(SortedByDownloads(SubSeq(nodes, 1, Len(nodes) - 1)),
                           nodes[Len(nodes)])

calculate_node_ranks(nodes) ==
    LET sorted_nodes == SortedByDownloads(nodes)
    IN [id \in {nodes[i].id : i \in 1..Len(nodes)} |->
          CHOOSE r \in 1..Len(sorted_nodes) : sorted_nodes[r].id = id]

(***************************************************************************)
(* analyze_specific_dependency                                             *)
(***************************************************************************)
\* the lines the loop of lines 538-539 iterates over; iterating a string gives its characters
IterDeps(node) ==
    IF ~HasLatestVersion(node) THEN <<>>
    ELSE IF node.deps_kind = "list" THEN node.dependencies
    ELSE IF node.deps_kind = "str" THEN [i \in 1..Len(node.dependencies) |-> <<node.dependencies[i]>>]
    ELSE <<>>

EmptyReport ==
    [nodes_using |-> <<>>, all_versions |-> <<>>, version_count |-> <<>>,
     version_keys |-> <<>>, nodes_with_commented |-> <<>>]

STAR == <<"*">>

\* lines 584-592
VersionSpec(dep_spec, base_name) ==
    IF HasVersionMatch(dep_spec)
    THEN Strip(SubSeq(dep_spec, Len(base_name) + 1, Len(dep_spec)))
    ELSE STAR

\* lines 542-552: original_str[1:].strip(), classified again
CommentedContent(p) == Strip(SubSeq(p.original_str, 2, Len(p.original_str)))

\* line 559
BaseNameMatches(base_name, dep_name_lower) == base_name = dep_name_lower

\* lines 540-592: the body of the loop over one node's lines
InspectDep(rep, node, dep, dep_name_lower, rank_map) ==
    LET p == parse_dependency_string(dep) IN
    IF p.is_comment
    THEN IF parse_dependency_string(CommentedContent(p)).base_name = dep_name_lower
         THEN [rep EXCEPT !.nodes_with_commented =
                 Append(@, [node_id |-> node.id, node_name |-> node.name,
                            commented_spec |-> p.original_str])]
         ELSE rep
    ELSE IF p.skip \/ p.is_pip_command THEN rep
    ELSE IF BaseNameMatches(p.base_name, dep_name_lower)
    THEN LET v == VersionSpec(p.cleaned_str, p.base_name) IN
         [rep EXCEPT !.nodes_using =
                 Append(@, [node_id |-> node.id, node_name |-> node.name,
                            dependency_spec |-> p.cleaned_str,
                            downloads |-> Downloads(node),
                            rank |-> rank_map[node.id]]),
                     !.all_versions = Append(@, v),
                     !.version_count = Incr(@, v),
                     !.version_keys = AppendKey(@, v)]
    ELSE rep

RECURSIVE InspectDeps(_, _, _, _, _)
InspectDeps(rep, node, deps, dep_name_lower, rank_map) ==
    IF deps = <<>> THEN rep
    ELSE InspectDeps(InspectDep(rep, node, Head(deps), dep_name_lower, rank_map),
                     node, Tail(deps), dep_name_lower, rank_map)

RECURSIVE InspectNodes(_, _, _, _)
InspectNodes(rep, nodes, dep_name_lower, rank_map) ==
    IF nodes = <<>> THEN rep
    ELSE InspectNodes(InspectDeps(rep, Head(nodes), IterDeps(Head(nodes)),
                                  dep_name_lower, rank_map),
                      Tail(nodes), dep_name_lower, rank_map)

analyze_specific_dependency(nodes, name) ==
    LET r == InspectNodes(EmptyReport, nodes, Lower(name), calculate_node_ranks(nodes)) IN
    [dependency_name |-> name,
     nodes_using |-> r.nodes_using,
     total_nodes |-> Len(r.nodes_using),
     all_versions |-> r.all_versions,
     unique_versions |-> Range(r.all_versions),
     version_count |-> r.version_count,
     sorted_versions |-> Pairs(SortedByCount(r.version_keys, r.version_count), r.version_count),
     nodes_with_commented |-> r.nodes_with_commented,
     commented_count |-> Len(r.nodes_with_commented)]

(***************************************************************************)
(* analyze_wildcard_dependencies (analysis.py:452-489)                     *)
(***************************************************************************)
\* os.path.normcase: the identity on POSIX, lower-casing on Windows
normcase(s, os_name) == IF os_name = "nt" THEN Lower(s) ELSE s

\* fnmatch.fnmatchcase for patterns made of literals, '*' and '?'
RECURSIVE fnmatchcase(_, _)
fnmatchcase(name, pat) ==
    IF pat = <<>> THEN name = <<>>
    ELSE IF Head(pat) = "*"
         THEN \/ fnmatchcase(name, Tail(pat))
              \/ name # <<>> /\ fnmatchcase(Tail(name), pat)
    ELSE IF name = <<>> THEN FALSE
    ELSE IF Head(pat) = "?" THEN fnmatchcase(Tail(name), Tail(pat))
    ELSE Head(pat) = Head(name) /\ fnmatchcase(Tail(name), Tail(pat))

fnmatch(name, pat, os_name) == fnmatchcase(normcase(name, os_name), normcase(pat, os_name))

\* lines 472-480: what one line adds to all_base_deps
CollectBaseDep(p) ==
    IF p.skip \/ p.is_pip_command THEN {}
    ELSE IF p.base_name # None /\ p.base_name # <<>> THEN {p.base_name} ELSE {}

\* lines 466-480
all_base_deps(nodes) ==
    UNION {UNION {CollectBaseDep(parse_dependency_string(IterDeps(nodes[i])[j])) :
                    j \in 1..Len(IterDeps(nodes[i]))} :
             i \in 1..Len(nodes)}

\* graph.py:64-82: the set unique_deps of calculate_cumulative_dependencies after the
\* last entity; only a list is iterated
unique_deps(nodes) ==
    UNION {UNION {CollectBaseDep(parse_dependency_string(IterDeps(nodes[i])[j])) :
                    j \in 1..Len(IterDeps(nodes[i]))} :
             i \in {k \in 1..Len(nodes) : nodes[k].deps_kind = "list"}}

\* mutation: every collected base name is reported, whatever the pattern
MatchingDeps_All(nodes, pattern_lower, os_name) == all_base_deps(nodes)

\* lines 483-484
MatchingDeps(nodes, pattern_lower, os_name) ==
    {base_dep \in all_base_deps(nodes) : fnmatch(base_dep, pattern_lower, os_name)}

analyze_wildcard_dependencies(nodes, pat, os_name) ==
    [base_dep \in MatchingDeps(nodes, Lower(pat), os_name) |->
        analyze_specific_dependency(nodes, base_dep)]

(***************************************************************************)
(* parse_requirements_txt (analysis.py:728-757)                            *)
(***************************************************************************)
NEWLINE == <<"\n">>
DASH_E == <<"-", "e", " ">>

\* s.split('\n')
RECURSIVE SplitLines(_)
SplitLines(s) ==
    IF Contains(s, NEWLINE)
    THEN <<SplitFirst(s, NEWLINE)>> \o SplitLines(SubSeq(s, Find(s, NEWLINE) + 1, Len(s)))
    ELSE <<s>>

\* lines 742-755: the loop over the lines
RECURSIVE KeepRequirementLines(_)
KeepRequirementLines(lines) ==
    IF lines = <<>> THEN <<>>
    ELSE LET line == Strip(Head(lines))
             rest == KeepRequirementLines(Tail(lines))
         IN IF line = <<>> \/ StartsWith(line, HASH) THEN rest
            ELSE IF StartsWith(line, DASH_E) THEN rest
            ELSE <<line>> \o rest

parse_requirements_txt(text) ==
    IF text = <<>> THEN <<>> ELSE KeepRequirementLines(SplitLines(text))

(***************************************************************************)
(* Repository attributes read from CSV feeds (utils.py:105-124, 194-330)   *)
(***************************************************************************)
HTTPS_GITHUB ==
    <<"h", "t", "t", "p", "s", ":", "/", "/", "g", "i", "t", "h", "u", "b", ".", "c", "o", "m", "/">>
HTTP_GITHUB ==
    <<"h", "t", "t", "p", ":", "/", "/", "g", "i", "t", "h", "u", "b", ".", "c", "o", "m", "/">>
GITHUB == <<"g", "i", "t", "h", "u", "b", ".", "c", "o", "m", "/">>
DOTGIT == <<".", "g", "i", "t">>
NA == <<"N", "/", "A">>

\* s.strip('/')
RECURSIVE LStripSlash(_)
LStripSlash(s) == IF s # <<>> /\ Head(s) = "/" THEN LStripSlash(Tail(s)) ELSE s

RECURSIVE RStripSlash(_)
RStripSlash(s) ==
    IF s # <<>> /\ s[Len(s)] = "/" THEN RStripSlash(SubSeq(s, 1, Len(s) - 1)) ELSE s

StripSlash(s) == RStripSlash(LStripSlash(s))

\* s.replace(p, ''): every occurrence is removed, scanning from the left
RECURSIVE Remove(_, _)
Remove(s, p) ==
    IF Contains(s, p)
    THEN SplitFirst(s, p) \o Remove(SubSeq(s, Find(s, p) + Len(p), Len(s)), p)
    ELSE s

normalize_repository_url(repo_url) ==
    IF repo_url = <<>> \/ repo_url = NA THEN <<>>
    ELSE Remove(Remove(Remove(Remove(StripSlash(Lower(repo_url)), HTTPS_GITHUB),
                              HTTP_GITHUB), GITHUB), DOTGIT)

\* the file paths of the feeds, in the order of Python's string comparison
Paths == <<"a.py", "b.py", "c.py">>

\* sorted(list(file_paths))
SortedPaths(file_paths) ==
    LET kept == {i \in 1..Len(Paths) : Paths[i] \in file_paths}
    IN [k \in 1..Cardinality(kept) |->
          Paths[CHOOSE i \in kept : Cardinality({j \in kept : j <= i}) = k]]

\* the empty dict of string keys
EmptyDict == [key \in {} |-> key]

\* the first entry of all_data whose repository normalizes like repo, 0 when none
FirstMatch(data, repo) ==
    LET hits == {k \in 1..Len(data) :
                   normalize_repository_url(data[k].repo) = normalize_repository_url(repo)}
    IN IF hits = {} THEN 0 ELSE CHOOSE k \in hits : \A j \in hits : k <= j

\* node_data.get('repository', '') is empty or 'N/A'
NoRepository(node) == node.repository = <<>> \/ node.repository = NA

\* utils.py:230-243: one node of load_csv_data_to_nodes
MapCsvToNode(node, data, key) ==
    IF NoRepository(node) \/ FirstMatch(data, node.repository) = 0 THEN node
    ELSE [node EXCEPT !.keys = (key :> SortedPaths(data[FirstMatch(data, node.repository)].files)) @@ @]

\* utils.py:294-310: one node of load_all_node_stats, its _stats initialised (265-267)
MapStatToNode(node, data, stat_name) ==
    LET init == IF node.has_stats THEN node ELSE [node EXCEPT !.has_stats = TRUE] IN
    IF NoRepository(init) \/ FirstMatch(data, init.repository) = 0 THEN init
    ELSE [init EXCEPT !.stats = (stat_name :> SortedPaths(data[FirstMatch(data, init.repository)].files)) @@ @]

Updated(nodes, data) ==
    Cardinality({i \in 1..Len(nodes) :
                   ~NoRepository(nodes[i]) /\ FirstMatch(data, nodes[i].repository) # 0})

\* utils.py:317-330
get_node_stat_count(node, stat_name) ==
    LET stats == IF node.has_stats THEN node.stats ELSE EmptyDict
        files == IF stat_name \in DOMAIN stats THEN stats[stat_name] ELSE <<>>
    IN IF files # <<>> THEN Len(files) ELSE 0

(***************************************************************************)
(* A session over a loaded entity set: the set is aggregated, then one     *)
(* dependency name is inspected.                                           *)
(***************************************************************************)
NodeIds == <<"n1", "n2", "n3", "n4">>

DepLines ==
    { <<"A", "=", "a">>,
      <<"g", "i", "t", "+", "B">>,
      <<"#", "a">>,
      <<"-", "-", "a">>,
      <<>> }

\* what a node without any line can be: an empty list, or a malformed record
EmptyShapes ==
    {[lv |-> "ok", kind |-> "list"],
     [lv |-> "absent", kind |-> "absent"],
     [lv |-> "null", kind |-> "absent"],
     [lv |-> "ok", kind |-> "absent"],
     [lv |-> "ok", kind |-> "null"]}

RECURSIVE SumTo(_, _)
SumTo(lens, i) == IF i = 0 THEN 0 ELSE lens[i] + SumTo(lens, i - 1)

\* the entity set whose i-th node has lens[i] lines, taken in order from flat; the download
\* count is fixed by the node's position
NodesOf(lens, flat, empty) ==
    [i \in 1..Len(lens) |->
        IF lens[i] = 0
        THEN Node(NodeIds[i], i, empty[i].lv, empty[i].kind, <<>>)
        ELSE Node(NodeIds[i], i, "ok", "list",
                  [k \in 1..lens[i] |-> flat[SumTo(lens, i - 1) + k]])]

Queries == {<<"A">>, <<"g", "i", "t", "+", "B">>, <<"b">>}

Init ==
    /\ \E n \in 0..MaxNodes : \E lens \in [1..n -> 0..MaxLines] :
          /\ SumTo(lens, n) <= MaxLines
          /\ \E flat \in [1..SumTo(lens, n) -> DepLines] :
                \E empty \in [{i \in 1..n : lens[i] = 0} -> EmptyShapes] :
                   nodes_dict = NodesOf(lens, flat, empty)
    /\ dep_analysis = None
    /\ dep_name = None
    /\ result = None
    /\ pc = "loaded"
    /\ dep_str = <<>>
    /\ parsed = NotParsed
    /\ reparsed = NotParsed
    /\ IdleExcept("none")

CompileDependencies ==
    /\ pc = "loaded"
    /\ dep_analysis' = compile_dependencies(nodes_dict)
    /\ pc' = "compiled"
    /\ UNCHANGED <<nodes_dict, dep_name, result, parseVars>>
    /\ UnchangedExcept("none")

AnalyzeSpecificDependency ==
    /\ pc = "compiled"
    /\ \E q \in Queries :
          /\ dep_name' = q
          /\ result' = analyze_specific_dependency(nodes_dict, q)
    /\ pc' = "analyzed"
    /\ UNCHANGED <<nodes_dict, dep_analysis, parseVars>>
    /\ UnchangedExcept("none")

Next == CompileDependencies \/ AnalyzeSpecificDependency

Spec == Init /\ [][Next]_vars

(***************************************************************************)
(* A session over an entity set whose lines are commented-out requirements *)
(* written with and without leading whitespace, next to active ones.       *)
(***************************************************************************)
CommentedLines ==
    { <<"#", "a">>,
      <<" ", "#", "a">>,
      <<"#", " ", "A", "=", "a">>,
      <<"A", "=", "a">>,
      <<"#", "b">> }

InitComments ==
    /\ \E n \in 0..MaxNodes : \E lens \in [1..n -> 0..MaxLines] :
          /\ SumTo(lens, n) <= MaxLines
          /\ \E flat \in [1..SumTo(lens, n) -> CommentedLines] :
                \E empty \in [{i \in 1..n : lens[i] = 0} -> EmptyShapes] :
                   nodes_dict = NodesOf(lens, flat, empty)
    /\ dep_analysis = None
    /\ dep_name = None
    /\ result = None
    /\ pc = "loaded"
    /\ dep_str = <<>>
    /\ parsed = NotParsed
    /\ reparsed = NotParsed
    /\ IdleExcept("none")

SpecComments == InitComments /\ [][Next]_vars

(***************************************************************************)
(* Reference notions used to state the properties of the classifier.  They *)
(* are written over character positions and share nothing with the        *)
(* operators that model the code.                                          *)
(***************************************************************************)
Min(S) == CHOOSE i \in S : \A j \in S : i <= j
Max(S) == CHOOSE i \in S : \A j \in S : i >= j

\* s from its first to its last non-whitespace character
Trim(s) ==
    LET ink == {i \in 1..Len(s) : ~IsSpace(s[i])}
    IN IF ink = {} THEN <<>> ELSE [k \in 1..(Max(ink) - Min(ink) + 1) |-> s[Min(ink) + k - 1]]

\* the positions of s at which the substring p occurs
Occurrences(s, p) ==
    {i \in 1..Len(s) : i + Len(p) - 1 <= Len(s) /\ \A k \in 1..Len(p) : s[i + k - 1] = p[k]}

\* the text of s before the first occurrence of the substring p (all of s when p does not occur)
Before(s, p) ==
    IF Occurrences(s, p) = {} THEN s
    ELSE [k \in 1..(Min(Occurrences(s, p)) - 1) |-> s[k]]

\* the text of s before the first character that belongs to cs
BeforeAnyOf(s, cs) ==
    LET stops == {i \in 1..Len(s) : s[i] \in cs}
    IN IF stops = {} THEN s ELSE [k \in 1..(Min(stops) - 1) |-> s[k]]

IsCommentLine(d) == StartsWith(Trim(d), HASH)
IsFlagLine(d) == ~IsCommentLine(d) /\ StartsWith(Trim(d), DASHDASH)
IsPlainLine(d) == ~IsCommentLine(d) /\ ~IsFlagLine(d)
Remainder(d) == Trim(Before(Trim(d), HASH))
IsActiveLine(d) == IsPlainLine(d) /\ Remainder(d) # <<>>

Classified == pc = "parsed"

SameClassification(p, q) ==
    /\ p.base_name = q.base_name
    /\ p.is_git_dep = q.is_git_dep
    /\ p.git_dep_type = q.git_dep_type
    /\ p.skip = q.skip

\* C4 (as stated): for every non-comment, non-flag input, empty remainders included,
\* classifying the cleaned_str again gives the same base_name, git tag and skip flag.
C4_Idempotent_AllPlain ==
    (pc = "reparsed" /\ IsPlainLine(dep_str)) => SameClassification(parsed, reparsed)

\* C4 (amended): for every non-comment, non-flag input whose remainder after
\* inline-comment stripping is not empty, classifying the cleaned_str again gives
\* the same base_name, git tag and skip flag.
C4_Idempotent_Active ==
    (pc = "reparsed" /\ IsActiveLine(dep_str)) => SameClassification(parsed, reparsed)

C4_Witness ==
    /\ pc = "reparsed"
    /\ dep_str = <<"a", " ", "@", " ", "B", "#">>
    /\ reparsed.is_git_dep
    /\ reparsed.base_name = <<"a">>

\* C5: a line whose trimmed text starts with '#' is a comment: is_comment and skip
\* are true, base_name and cleaned_str are null, is_pip_command and is_git_dep are
\* false, whatever follows the '#'; and is_comment implies skip for every input.
C5_CommentLines ==
    /\ (Classified /\ IsCommentLine(dep_str)) =>
          /\ parsed.is_comment /\ parsed.skip
          /\ parsed.base_name = None /\ parsed.cleaned_str = None
          /\ ~parsed.is_pip_command /\ ~parsed.is_git_dep
    /\ Classified => (parsed.is_comment => parsed.skip)
    /\ pc = "reparsed" => (reparsed.is_comment => reparsed.skip)

C5_Witness ==
    /\ pc = "parsed"
    /\ dep_str = <<" ", "#", "-", "-">>
    /\ parsed.is_comment /\ parsed.skip

IsOrdinaryLine(d) ==
    /\ IsActiveLine(d)
    /\ ~StartsWith(Remainder(d), GITPLUS)
    /\ ~Contains(Remainder(d), AT)

\* C7: for an ordinary line, base_name is the lower-cased cleaned string cut at the
\* first of the characters < > = ! ~ and trimmed; without such a character it is the
\* whole lower-cased cleaned string.
C7_OrdinaryBaseName ==
    (Classified /\ IsOrdinaryLine(dep_str)) =>
        /\ parsed.base_name = Trim(BeforeAnyOf(Lower(Remainder(dep_str)), VersionOps))
        /\ (\A i \in 1..Len(Remainder(dep_str)) : Remainder(dep_str)[i] \notin VersionOps)
              => parsed.base_name = Lower(Remainder(dep_str))

C7_Witness ==
    /\ pc = "parsed"
    /\ dep_str = <<"B", " ", "<", "=">>
    /\ parsed.base_name = <<"b">>

C9_CleanedIsRemainder ==
    (Classified /\ IsPlainLine(dep_str)) =>
        /\ parsed.cleaned_str = Remainder(dep_str)
        /\ parsed.skip <=> (Remainder(dep_str) = <<>>)
        /\ parsed.skip => parsed.base_name = None

\* C9 (amended): for every non-comment, non-flag line, cleaned_str is the text before
\* the first '#', trimmed, when that text is not empty and null when it is empty;
\* skip is true exactly when that text is empty, and then base_name is null.
C9_CleanedIsRemainderOrNull ==
    (Classified /\ IsPlainLine(dep_str)) =>
        /\ parsed.cleaned_str = IF Remainder(dep_str) = <<>> THEN None ELSE Remainder(dep_str)
        /\ parsed.skip <=> (Remainder(dep_str) = <<>>)
        /\ parsed.skip => parsed.base_name = None

C9_Witness ==
    /\ pc = "parsed"
    /\ dep_str = <<" ", "a", " ", "#">>
    /\ parsed.cleaned_str = <<"a">>
    /\ ~parsed.skip

(***************************************************************************)
(* A session with wildcard queries: the set is aggregated, then a glob     *)
(* pattern or one dependency name is inspected.                            *)
(***************************************************************************)
WildLines ==
    { <<"a">>,
      <<"a", "B">>,
      <<"b">>,
      <<"g", "i", "t", "+", "B">>,
      <<"=", "a">>,
      <<"#", "b">> }

\* the queries that reach analyze_wildcard_dependencies contain a '*'
Patterns ==
    { <<"a", "*">>,
      <<"A", "?", "*">>,
      <<"*">>,
      <<"*", "b">>,
      <<"g", "i", "t", "+", "B", "*">>,
      <<"c", "*">> }

InitWildcard ==
    /\ \E n \in 0..MaxNodes : \E lens \in [1..n -> 0..MaxWildLines] :
          /\ SumTo(lens, n) <= MaxWildLines
          /\ \E flat \in [1..SumTo(lens, n) -> WildLines] :
                \E empty \in [{i \in 1..n : lens[i] = 0} ->
                              {[lv |-> "ok", kind |-> "list"],
                               [lv |-> "absent", kind |-> "absent"]}] :
                   nodes_dict = NodesOf(lens, flat, empty)
    /\ dep_analysis = None
    /\ dep_name = None
    /\ result = None
    /\ pc = "loaded"
    /\ IdleParse
    /\ IdleExcept("none")

AnalyzeWildcardDependencies ==
    /\ pc = "compiled"
    /\ \E q \in Patterns : \E os_name \in {"posix", "nt"} :
          /\ pattern' = q
          /\ wildcard_results' = analyze_wildcard_dependencies(nodes_dict, q, os_name)
    /\ pc' = "matched"
    /\ UNCHANGED <<aggVars, parseVars>>
    /\ UnchangedExcept("wildcard")

SpecWildcard ==
    InitWildcard /\ [][ \/ CompileDependencies
                        \/ AnalyzeWildcardDependencies
                        \/ AnalyzeSpecificDependency ]_vars

(***************************************************************************)
(* Ranking of a loaded entity set by download count                        *)
(***************************************************************************)
DownloadValues == {NoDownloads, 0, 50, 100, 200}

InitRanks ==
    /\ \E n \in 0..MaxRanked : \E dl \in [1..n -> DownloadValues] :
          nodes_dict = [i \in 1..n |-> Node(NodeIds[i], dl[i], "ok", "list", <<>>)]
    /\ dep_analysis = None
    /\ dep_name = None
    /\ result = None
    /\ pc = "loaded"
    /\ IdleParse
    /\ IdleExcept("none")

CalculateNodeRanks ==
    /\ pc = "loaded"
    /\ full_rank_map' = calculate_node_ranks(nodes_dict)
    /\ pc' = "ranked"
    /\ UNCHANGED <<aggVars, parseVars>>
    /\ UnchangedExcept("ranks")

SpecRanks == InitRanks /\ [][CalculateNodeRanks]_vars

(***************************************************************************)
(* A requirements.txt text replaces the dependency list of a node, and the *)
(* entity set is aggregated again.                                         *)
(***************************************************************************)
ReqTokens ==
    { NEWLINE, <<" ">>, HASH, DASHDASH, DASH_E, <<"a">>, <<"A">>, <<"=">> }

InitRequirements ==
    /\ \E n \in 0..MaxReqTok : \E t \in [1..n -> ReqTokens] : content = Flatten(t)
    /\ new_deps = None
    /\ nodes_dict = <<Node(NodeIds[1], 1, "ok", "list", <<>>)>>
    /\ dep_analysis = None
    /\ dep_name = None
    /\ result = None
    /\ pc = "fetched"
    /\ IdleParse
    /\ IdleExcept("requirements")

ParseRequirementsTxt ==
    /\ pc = "fetched"
    /\ new_deps' = parse_requirements_txt(content)
    /\ pc' = "requirements"
    /\ UNCHANGED <<content, aggVars, parseVars>>
    /\ UnchangedExcept("requirements")

\* node_data['latest_version']['dependencies'] = new_deps
UpdateDependencies ==
    /\ pc = "requirements"
    /\ nodes_dict' = [nodes_dict EXCEPT ![1].dependencies = new_deps]
    /\ pc' = "loaded"
    /\ UNCHANGED <<dep_analysis, dep_name, result, content, new_deps, parseVars>>
    /\ UnchangedExcept("requirements")

SpecRequirements ==
    InitRequirements /\ [][ \/ ParseRequirementsTxt
                            \/ UpdateDependencies
                            \/ CompileDependencies ]_vars

(***************************************************************************)
(* Aggregation of an entity set that holds malformed records: no           *)
(* latest_version, a null or empty one, no dependencies field, or a        *)
(* dependencies value that is null, empty or a string instead of a list.   *)
(***************************************************************************)
\* malformed records
RecordShapes ==
    {[lv |-> "absent", kind |-> "absent", deps |-> <<>>],
     [lv |-> "null", kind |-> "absent", deps |-> <<>>],
     [lv |-> "empty", kind |-> "absent", deps |-> <<>>],
     [lv |-> "ok", kind |-> "absent", deps |-> <<>>],
     [lv |-> "ok", kind |-> "null", deps |-> <<>>],
     [lv |-> "ok", kind |-> "list", deps |-> <<>>],
     [lv |-> "ok", kind |-> "str", deps |-> <<"a">>],
     \* well-formed records
     [lv |-> "ok", kind |-> "list", deps |-> << <<"A", "=", "a">> >>],
     [lv |-> "ok", kind |-> "list", deps |-> << <<"#", "a">>, <<"a">> >>],
     [lv |-> "ok", kind |-> "list", deps |-> << <<"-", "-", "a">>, <<"g", "i", "t", "+", "B">> >>]}

InitMalformed ==
    /\ \E n \in 0..MaxNodes : \E sh \in [1..n -> RecordShapes] :
          nodes_dict = [i \in 1..n |-> Node(NodeIds[i], i, sh[i].lv, sh[i].kind, sh[i].deps)]
    /\ dep_analysis = None
    /\ dep_name = None
    /\ result = None
    /\ pc = "loaded"
    /\ IdleParse
    /\ IdleExcept("none")

SpecMalformed == InitMalformed /\ [][CompileDependencies]_vars

(***************************************************************************)
(* Feeds of (repository, file paths) are mapped onto the entities, either  *)
(* under a key of the node or under its _stats mapping.                    *)
(***************************************************************************)
UrlTokens == { HTTPS_GITHUB, GITHUB, <<"a">>, <<"A">>, DOTGIT, <<"/">> }

\* the file paths of the k-th repository of the feeds
FeedFiles == << {"b.py", "a.py"}, {"c.py"}, {"a.py"} >>

InitStats ==
    /\ \E n \in 0..MaxStatNodes : \E m \in [1..n -> 0..MaxUrlTok] :
          \E t \in [{<<i, k>> \in (1..n) \X (1..MaxUrlTok) : k <= m[i]} -> UrlTokens] :
             \E na \in [1..n -> BOOLEAN] :
                stat_nodes = [i \in 1..n |->
                    [id |-> NodeIds[i],
                     repository |-> IF na[i] /\ m[i] = 0 THEN NA
                                    ELSE Flatten([k \in 1..m[i] |-> t[<<i, k>>]]),
                     keys |-> EmptyDict,
                     has_stats |-> FALSE,
                     stats |-> EmptyDict]]
    /\ \E r \in 0..MaxFeedRepos : \E m \in [1..r -> 0..MaxUrlTok] :
          \E t \in [{<<i, k>> \in (1..r) \X (1..MaxUrlTok) : k <= m[i]} -> UrlTokens] :
             /\ all_data = [i \in 1..r |->
                    [repo |-> Flatten([k \in 1..m[i] |-> t[<<i, k>>]]),
                     files |-> FeedFiles[i]]]
             /\ \A i, j \in 1..r : i # j => all_data[i].repo # all_data[j].repo
    /\ node_key = None
    /\ routes_count = 0
    /\ nodes_dict = <<>>
    /\ dep_analysis = None
    /\ dep_name = None
    /\ result = None
    /\ pc = "feeds"
    /\ IdleParse
    /\ IdleExcept("stats")

LoadCsvDataToNodes ==
    /\ pc = "feeds"
    /\ \E key \in {"_routes"} :
          /\ node_key' = key
          /\ stat_nodes' = [i \in 1..Len(stat_nodes) |-> MapCsvToNode(stat_nodes[i], all_data, key)]
    /\ routes_count' = Updated(stat_nodes, all_data)
    /\ pc' = "csv_loaded"
    /\ UNCHANGED <<all_data, aggVars, parseVars>>
    /\ UnchangedExcept("stats")

LoadAllNodeStats ==
    /\ pc = "feeds"
    /\ \E key \in {"_routes"} :
          /\ node_key' = key
          /\ stat_nodes' = [i \in 1..Len(stat_nodes) |-> MapStatToNode(stat_nodes[i], all_data, key)]
    /\ routes_count' = Updated(stat_nodes, all_data)
    /\ pc' = "stats_loaded"
    /\ UNCHANGED <<all_data, aggVars, parseVars>>
    /\ UnchangedExcept("stats")

SpecStats ==
    InitStats /\ [][ \/ LoadCsvDataToNodes
                     \/ LoadAllNodeStats ]_vars

(***************************************************************************)
(* fetch_page (analysis.py:39-63): one call, a step per request.           *)
(* requests is the log of the outcomes of the requests issued so far.      *)
(***************************************************************************)
\* response.json() of a page
Response(page) == <<"json", page>>

\* mutation: the failure handlers give up one attempt early
MayRetry_OneLess(a, k) == a < k - 2

\* 'if attempt < retries - 1' of lines 48 and 55
MayRetry(a, k) == a < k - 1

InitFetchPage ==
    /\ page_num \in 1..MaxPages
    /\ retries \in 0..MaxRetries
    /\ attempt = 0
    /\ requests = <<>>
    /\ returned = NoValue
    /\ pc = "fetching"
    /\ nodes_dict = <<>>
    /\ dep_analysis = None
    /\ dep_name = None
    /\ result = None
    /\ IdleParse
    /\ IdleExcept("fetch_page")

\* lines 44-46: the request succeeds and its JSON is returned
RequestSucceeds ==
    /\ pc = "fetching"
    /\ attempt < retries
    /\ requests' = Append(requests, "ok")
    /\ returned' = Response(page_num)
    /\ pc' = "returned"
    /\ UNCHANGED <<page_num, retries, attempt, aggVars, parseVars>>
    /\ UnchangedExcept("fetch_page")

\* lines 47-60: requests.exceptions.Timeout, or any other Exception (connection
\* error, HTTP status, invalid JSON); both clauses sleep and go on, or give up with None
RequestFails ==
    /\ pc = "fetching"
    /\ attempt < retries
    /\ \E outcome \in {"timeout", "error"} : requests' = Append(requests, outcome)
    /\ IF MayRetry(attempt, retries)
       THEN /\ attempt' = attempt + 1
            /\ UNCHANGED <<returned, pc>>
       ELSE /\ returned' = None
            /\ pc' = "returned"
            /\ UNCHANGED attempt
    /\ UNCHANGED <<page_num, retries, aggVars, parseVars>>
    /\ UnchangedExcept("fetch_page")

\* line 62: the loop ended without a return
LoopExhausted ==
    /\ pc = "fetching"
    /\ ~(attempt < retries)
    /\ returned' = None
    /\ pc' = "returned"
    /\ UNCHANGED <<page_num, retries, attempt, requests, aggVars, parseVars>>
    /\ UnchangedExcept("fetch_page")

SpecFetchPage ==
    InitFetchPage /\ [][ \/ RequestSucceeds
                         \/ RequestFails
                         \/ LoopExhausted ]_vars

(***************************************************************************)
(* get_registry_nodes_concurrent (analysis.py:25-117). The main thread     *)
(* fetches page 1, submits the other pages to a pool of max_workers        *)
(* threads, handles the futures in the order they complete, retries the    *)
(* failed pages one after the other and returns. A call of fetch_page is   *)
(* one step here: it yields the page's JSON, or None.                      *)
(***************************************************************************)
NOID == "no id"

\* what a page of the registry can hold: a list of nodes, named by their id
PageContents == { <<"x">>, <<"x", "y">>, <<"z", NOID>> }

\* lines 65-73: nodes_dict[node['id']] = node for every node of the page that has an id
RECURSIVE StoreNodes(_, _, _)
StoreNodes(dict, nodes, page) ==
    IF nodes = <<>> THEN dict
    ELSE StoreNodes(IF Head(nodes) = NOID THEN dict
                    ELSE (Head(nodes) :> page) @@ dict,
                    Tail(nodes), page)

process_page_results(dict, page) == StoreNodes(dict, registry[page], page)

\* mutation: the last page is not submitted (range(2, total_pages))
SubmittedPages_OneLess(total) == 2..(total - 1)

\* range(2, total_pages + 1) of line 93
SubmittedPages(total) == 2..total

InitFetch ==
    /\ \E n \in 1..MaxPages : registry \in [1..n -> PageContents]
    /\ max_workers \in 1..MaxWorkers
    /\ total_pages = 0
    /\ futures = <<>>
    /\ fetched_nodes = EmptyDict
    /\ failed_pages = <<>>
    /\ retry_index = 0
    /\ gave_up = {}
    /\ page_calls = [p \in DOMAIN registry |-> <<>>]
    /\ pc = "first_page"
    /\ nodes_dict = <<>>
    /\ dep_analysis = None
    /\ dep_name = None
    /\ result = None
    /\ IdleParse
    /\ IdleExcept("fetch")

\* lines 78-96: page 1 arrives, is stored, and the other pages are submitted
FirstPageFetched ==
    /\ pc = "first_page"
    /\ total_pages' = Len(registry)
    /\ fetched_nodes' = process_page_results(fetched_nodes, 1)
    /\ futures' = [p \in SubmittedPages(Len(registry)) |-> "pending"]
    /\ pc' = IF Len(registry) > 1 THEN "collecting" ELSE "finishing"
    /\ page_calls' = [page_calls EXCEPT ![1] = Append(@, "json")]
    /\ UNCHANGED <<registry, max_workers, failed_pages, retry_index, gave_up,
                   aggVars, parseVars>>
    /\ UnchangedExcept("fetch")

\* lines 79-81: fetch_page(1) gave None
FirstPageFailed ==
    /\ pc = "first_page"
    /\ gave_up' = gave_up \cup {1}
    /\ page_calls' = [page_calls EXCEPT ![1] = Append(@, "none")]
    /\ pc' = "done"
    /\ UNCHANGED <<registry, max_workers, total_pages, futures, fetched_nodes, failed_pages,
                   retry_index, aggVars, parseVars>>
    /\ UnchangedExcept("fetch")

\* the futures of the pool that are queued ("pending"), running fetch_page
\* ("running"), finished with its result ("json", "none") or handled ("handled")
FuturesIn(states) == {p \in DOMAIN futures : futures[p] \in states}

\* a free thread of the pool takes the oldest queued fetch
WorkerStarts ==
    /\ pc = "collecting"
    /\ Cardinality(FuturesIn({"running"})) < max_workers
    /\ FuturesIn({"pending"}) # {}
    /\ LET p == CHOOSE q \in FuturesIn({"pending"}) : \A r \in FuturesIn({"pending"}) : q <= r
       IN futures' = [futures EXCEPT ![p] = "running"]
    /\ UNCHANGED <<registry, max_workers, total_pages, fetched_nodes, failed_pages,
                   retry_index, gave_up, page_calls, pc, aggVars, parseVars>>
    /\ UnchangedExcept("fetch")

\* fetch_page returns in a worker thread: the page's JSON, or None
WorkerFinishes ==
    /\ pc = "collecting"
    /\ \E p \in FuturesIn({"running"}) : \E outcome \in {"json", "none"} :
          /\ futures' = [futures EXCEPT ![p] = outcome]
          /\ gave_up' = IF outcome = "none" THEN gave_up \cup {p} ELSE gave_up
          /\ page_calls' = [page_calls EXCEPT ![p] = Append(@, outcome)]
    /\ UNCHANGED <<registry, max_workers, total_pages, fetched_nodes, failed_pages,
                   retry_index, pc, aggVars, parseVars>>
    /\ UnchangedExcept("fetch")

\* lines 101-113: as_completed hands a finished future to the main thread
FutureHandled ==
    /\ pc = "collecting"
    /\ \E p \in FuturesIn({"json", "none"}) :
          /\ IF futures[p] = "json"
             THEN /\ fetched_nodes' = process_page_results(fetched_nodes, p)
                  /\ UNCHANGED failed_pages
             ELSE /\ failed_pages' = Append(failed_pages, p)
                  /\ UNCHANGED fetched_nodes
          /\ futures' = [futures EXCEPT ![p] = "handled"]
    /\ UNCHANGED <<registry, max_workers, total_pages, retry_index, gave_up, page_calls,
                   pc, aggVars, parseVars>>
    /\ UnchangedExcept("fetch")

\* as_completed is exhausted: on to the sequential retry (lines 115-118)
AllHandled ==
    /\ pc = "collecting"
    /\ \A p \in DOMAIN futures : futures[p] = "handled"
    /\ pc' = IF failed_pages # <<>> THEN "retrying" ELSE "finishing"
    /\ retry_index' = 1
    /\ UNCHANGED <<registry, max_workers, total_pages, futures, fetched_nodes, failed_pages,
                   gave_up, page_calls, aggVars, parseVars>>
    /\ UnchangedExcept("fetch")

\* lines 118-124: fetch_page(page, retries=5) for the next failed page
FailedPageRetried ==
    /\ pc = "retrying"
    /\ retry_index <= Len(failed_pages)
    /\ \E outcome \in {"json", "none"} :
          /\ IF outcome = "json"
             THEN /\ fetched_nodes' = process_page_results(fetched_nodes,
                                                          failed_pages[retry_index])
                  /\ UNCHANGED gave_up
             ELSE /\ gave_up' = gave_up \cup {failed_pages[retry_index]}
                  /\ UNCHANGED fetched_nodes
          /\ page_calls' = [page_calls EXCEPT ![failed_pages[retry_index]] =
                                                 Append(@, outcome)]
    /\ retry_index' = retry_index + 1
    /\ pc' = IF retry_index = Len(failed_pages) THEN "finishing" ELSE "retrying"
    /\ UNCHANGED <<registry, max_workers, total_pages, futures, failed_pages,
                   aggVars, parseVars>>
    /\ UnchangedExcept("fetch")

\* lines 126-136: the nodes of the dict are returned
NodesReturned ==
    /\ pc = "finishing"
    /\ pc' = "done"
    /\ UNCHANGED <<aggVars, parseVars>>
    /\ UnchangedExcept("none")

SpecFetch ==
    InitFetch /\ [][ \/ FirstPageFetched
                     \/ FirstPageFailed
                     \/ WorkerStarts
                     \/ WorkerFinishes
                     \/ FutureHandled
                     \/ AllHandled
                     \/ FailedPageRetried
                     \/ NodesReturned ]_vars

\* every call of fetch_page returns (requests.get has timeout=10 and the loop of
\* fetch_page is bounded), every thread of the pool and the main thread keep running
SpecFetchLive ==
    SpecFetch /\ WF_vars(\/ FirstPageFetched
                         \/ FirstPageFailed
                         \/ WorkerStarts
                         \/ WorkerFinishes
                         \/ FutureHandled
                         \/ AllHandled
                         \/ FailedPageRetried
                         \/ NodesReturned)

(***************************************************************************)
(* get_raw_file_url (analysis.py:668-695), called with the default         *)
(* filename. The result is None or the list of the two raw-file URLs.      *)
(***************************************************************************)
get_raw_file_url(url) ==
    LET \* url.rstrip('/').rstrip('.git'): the second rstrip removes every trailing
        \* character that is one of '.', 'g', 'i', 't'
        no_slash == RStripSlash(url)
        kept == {k \in 1..Len(no_slash) : no_slash[k] \notin {".", "g", "i", "t"}}
        stripped == IF kept = {} THEN <<>>
                    ELSE SubSeq(no_slash, 1, CHOOSE k \in kept : \A j \in kept : j <= k)
        parts == Remove(Remove(stripped, HTTPS_GITHUB), HTTP_GITHUB)
        raw == <<"h", "t", "t", "p", "s", ":", "/", "/", "r", "a", "w", ".",
                 "g", "i", "t", "h", "u", "b", "u", "s", "e", "r",
                 "c", "o", "n", "t", "e", "n", "t", ".", "c", "o", "m", "/">>
        filename == <<"r", "e", "q", "u", "i", "r", "e", "m", "e", "n", "t", "s",
                      ".", "t", "x", "t">>
    IN IF url = <<>> \/ url = NA THEN None
       ELSE IF Contains(stripped, SubSeq(GITHUB, 1, Len(GITHUB) - 1))
       THEN << raw \o parts \o <<"/", "m", "a", "i", "n", "/">> \o filename,
               raw \o parts \o <<"/", "m", "a", "s", "t", "e", "r", "/">> \o filename >>
       ELSE None

InitRawUrl ==
    /\ \E n \in 0..MaxRawTok :
          \E t \in [1..n -> {HTTPS_GITHUB, HTTP_GITHUB, <<"u", "/">>, <<"r">>, <<"t">>,
                              DOTGIT, <<"/">>, NA}] :
             repository_url = Flatten(t)
    /\ raw_urls = NoValue
    /\ pc = "url"
    /\ nodes_dict = <<>>
    /\ dep_analysis = None
    /\ dep_name = None
    /\ result = None
    /\ IdleParse
    /\ IdleExcept("raw_url")

GetRawFileUrl ==
    /\ pc = "url"
    /\ raw_urls' = get_raw_file_url(repository_url)
    /\ pc' = "raw_urls"
    /\ UNCHANGED <<repository_url, aggVars, parseVars>>
    /\ UnchangedExcept("raw_url")

SpecRawUrl == InitRawUrl /\ [][GetRawFileUrl]_vars

(***************************************************************************)
(* The query loop of interactive_mode (analysis.py:1394-1397, 2089-2300):  *)
(* a dependency-name query with its '&nodes' and '&top N' modifiers.       *)
(* top_n is None without the modifier and <<"top", N>> with it;            *)
(* selected_nodes is working_nodes as '&nodes' leaves it, before '&top'.   *)
(***************************************************************************)
\* mutation: the first N nodes of the dict are taken, without sorting by downloads
TopNodes_Unsorted(nodes, n) ==
    IF n > 0 THEN SubSeq(nodes, 1, IF n < Len(nodes) THEN n ELSE Len(nodes))
    ELSE SubSeq(nodes, (IF n < 0 /\ Len(nodes) + n > 0 THEN Len(nodes) + n ELSE 0) + 1,
                Len(nodes))

\* mutation: a positive N takes the last N nodes of the sorted list
TopNodes_FromEnd(nodes, n) ==
    LET sorted_nodes == SortedByDownloads(nodes)
        len == Len(sorted_nodes)
    IN SubSeq(sorted_nodes, (IF n # 0 /\ len > n /\ len > -n
                             THEN len - (IF n > 0 THEN n ELSE -n) ELSE 0) + 1, len)

\* lines 2116-2123: dict(sorted_nodes[:top_n]) for top_n > 0, dict(sorted_nodes[top_n:])
\* otherwise
TopNodes(nodes, n) ==
    LET sorted_nodes == SortedByDownloads(nodes)
        len == Len(sorted_nodes)
    IN IF n > 0 THEN SubSeq(sorted_nodes, 1, IF n < len THEN n ELSE len)
       ELSE SubSeq(sorted_nodes, (IF n < 0 /\ len + n > 0 THEN len + n ELSE 0) + 1, len)

\* lines 1273-1280: the nodes named by node_ids, in the order of node_ids
RECURSIVE FilterNodes(_, _, _)
FilterNodes(filtered_nodes, node_ids, nodes) ==
    IF node_ids = <<>> THEN filtered_nodes
    ELSE LET hit == {i \in 1..Len(nodes) : nodes[i].id = Head(node_ids)}
             stored == \E k \in 1..Len(filtered_nodes) :
                          filtered_nodes[k].id = Head(node_ids)
         IN FilterNodes(IF hit = {} \/ stored THEN filtered_nodes
                        ELSE Append(filtered_nodes, nodes[CHOOSE i \in hit : TRUE]),
                        Tail(node_ids), nodes)

\* parse_nodes_modifier for a comma-separated list of IDs; node_ids is None when the
\* query has no '&nodes' (lines 2101-2102)
parse_nodes_modifier(node_ids, nodes) ==
    IF node_ids = None THEN nodes
    ELSE IF FilterNodes(<<>>, node_ids, nodes) # <<>>
         THEN FilterNodes(<<>>, node_ids, nodes)
         ELSE nodes

\* all_deps_lower.get(query_lower) with all_deps_lower = {dep.lower(): dep for dep in
\* unique_base_dependencies}: the last key with that lower-case form (lines 1397, 2235-2241)
ExactMatch(unique_base_dependencies, query) ==
    LET hits == {i \in 1..Len(unique_base_dependencies) :
                   Lower(unique_base_dependencies[i]) = Lower(query)}
    IN IF hits = {} THEN None
       ELSE unique_base_dependencies[CHOOSE i \in hits : \A j \in hits : j <= i]

InitSession ==
    /\ \E n \in 0..MaxSessionNodes :
          \E dl \in [1..n -> {NoDownloads, 0, 50}] :
             \E deps \in [1..n -> { << <<"A", "=", "a">> >>, << <<"b">> >> }] :
                nodes_dict = [i \in 1..n |-> Node(NodeIds[i], dl[i], "ok", "list", deps[i])]
    /\ dep_analysis = compile_dependencies(nodes_dict)
    /\ dep_name = None
    /\ result = None
    /\ selected_nodes = None
    /\ working_nodes = None
    /\ top_n = None
    /\ pc = "prompt"
    /\ IdleParse
    /\ IdleExcept("session")

\* lines 2089-2300: one query that is not a command. Afterwards the loop is at its
\* prompt again; pc tells what the query printed: the report of a dependency
\* ("analyzed"), the reports of a pattern ("matched") or no exact match ("no_match").
DependencyQuery ==
    /\ pc \in {"prompt", "analyzed", "matched", "no_match"}
    /\ \E query \in {<<"B">>, <<"a", "*">>} :
       \E node_ids \in {None, <<"n2", "n1">>} :
       \E t \in {None} \cup {<<"top", n>> : n \in {-1, 0, 1, 2}} :
       \E selected \in {parse_nodes_modifier(node_ids, nodes_dict)} :
       \E working \in {IF t = None THEN selected ELSE TopNodes(selected, t[2])} :
       \E table \in {IF t # None /\ t[2] # 0 THEN compile_dependencies(working)
                     ELSE dep_analysis} :
       \E exact_match \in {ExactMatch(table.unique_base_dependencies, query)} :
          /\ selected_nodes' = selected
          /\ working_nodes' = working
          /\ top_n' = t
          /\ dep_analysis' = table
          /\ dep_name' = query
          /\ IF "*" \in Range(query)
             THEN /\ pattern' = query
                  /\ \E os_name \in {"posix", "nt"} :
                        wildcard_results' =
                           analyze_wildcard_dependencies(working, query, os_name)
                  /\ result' = None
                  /\ pc' = "matched"
             ELSE /\ result' = IF exact_match # None
                               THEN analyze_specific_dependency(working, exact_match)
                               ELSE None
                  /\ pc' = IF exact_match # None THEN "analyzed" ELSE "no_match"
                  /\ pattern' = None
                  /\ wildcard_results' = None
    /\ UNCHANGED <<nodes_dict, parseVars>>
    /\ UnchangedExcept("session")

SpecSession == InitSession /\ [][DependencyQuery]_vars

(***************************************************************************)
(* Dependencies taken from requirements.txt: load_all_cached_requirements, *)
(* update_node_requirements and the '/update' command of interactive_mode  *)
(* (analysis.py:698-725, 895-1069, 1367-1432). nodes_json is the registry  *)
(* data as load_nodes_to_dict reads it, requirements_cache the directory   *)
(* updated_reqs (node ID -> text of the cached file). Writing and deleting *)
(* a cache file succeed; at the start the directory may hold a file for    *)
(* the first node and one for an ID that is no node. fetched is the future *)
(* handled last with the responses its requests got. The lookup table that *)
(* interactive_mode compiles from nodes_dict belongs to the query loop and *)
(* is left out.                                                            *)
(***************************************************************************)
UNSUPPORTED == <<"Unsupported repository host">>
NOT_FOUND == <<"requirements.txt not found">>

\* sequences of outcomes of the calls of requests.get for urls: a call is answered
\* <<"200", text>>, answered with another status, or raises (a timeout or another
\* RequestException, both handled by 'continue'); after a 200 no call follows
RequestsFor(urls) ==
    IF urls = None THEN {<<>>}
    ELSE { << <<"200", <<"b">> >> >>,
           << <<"404">>, <<"200", <<"b">> >> >>,
           << <<"404">>, <<"404">> >>,
           << <<"raised">>, <<"raised">> >> }

\* responses[k] is the outcome of the k-th call of requests.get
fetch_requirements_txt(url, responses) ==
    IF get_raw_file_url(url) = None
    THEN [success |-> FALSE, content |-> None, error |-> UNSUPPORTED]
    ELSE IF responses[Len(responses)][1] = "200"
    THEN [success |-> TRUE, content |-> responses[Len(responses)][2], error |-> None]
    ELSE [success |-> FALSE, content |-> None, error |-> NOT_FOUND]

\* lines 1039-1043 and 929-932: the dependencies of node_id are replaced in place
SetDependencies(nodes, node_id, deps) ==
    [i \in 1..Len(nodes) |->
        IF nodes[i].id = node_id /\ HasLatestVersion(nodes[i])
        THEN [nodes[i] EXCEPT !.dependencies = deps, !.updated_from_requirements = TRUE]
        ELSE nodes[i]]

\* mutation: a node on an unsupported host is counted as unsupported only
CountFailure_UnsupportedOnly(counts, error) ==
    IF error = UNSUPPORTED THEN [counts EXCEPT !.unsupported = @ + 1]
    ELSE [counts EXCEPT !.failed = @ + 1]

\* lines 1060-1067
CountFailure(counts, error) ==
    [counts EXCEPT !.unsupported = IF error = UNSUPPORTED THEN @ + 1 ELSE @,
                   !.failed = @ + 1]

InitUpdate ==
    /\ \E n \in 0..MaxUpdateNodes :
          \E shape \in [1..n -> {<<"absent", <<>>, HTTPS_GITHUB \o <<"u", "/", "r">> >>,
                                 <<"ok", <<>>, NA>>,
                                 <<"ok", << <<"a">> >>, HTTPS_GITHUB \o <<"u", "/", "r">> >>}] :
             nodes_json = [i \in 1..n |->
                             [id |-> NodeIds[i], name |-> NodeIds[i], downloads |-> 0,
                              lv |-> shape[i][1], deps_kind |-> "list",
                              dependencies |-> shape[i][2], repository |-> shape[i][3],
                              updated_from_requirements |-> FALSE]]
    /\ nodes_dict = nodes_json
    /\ \E cached \in SUBSET {NodeIds[1], NodeIds[Len(nodes_json) + 1]} :
          requirements_cache = [node_id \in cached |-> <<"b">>]
    /\ original_deps_backup = EmptyDict
    /\ update_stats = None
    /\ original_json_deps = EmptyDict
    /\ future_to_node = <<>>
    /\ completed = 0
    /\ fetched = None
    /\ pc = "start"
    /\ dep_analysis = None
    /\ dep_name = None
    /\ result = None
    /\ IdleParse
    /\ IdleExcept("update")

\* lines 1367-1370 with load_all_cached_requirements (895-935)
LoadAllCachedRequirements ==
    /\ pc = "start"
    /\ LET Known(i) == nodes_dict[i].id \in DOMAIN requirements_cache
           loaded == {i \in 1..Len(nodes_dict) : Known(i)}
       IN /\ original_deps_backup' =
                [node_id \in {nodes_dict[i].id : i \in {k \in loaded :
                                                      HasLatestVersion(nodes_dict[k])}} |->
                    (CHOOSE node \in Range(nodes_dict) : node.id = node_id).dependencies]
          /\ nodes_dict' =
                [i \in 1..Len(nodes_dict) |->
                    IF i \in loaded
                    THEN SetDependencies(nodes_dict, nodes_dict[i].id,
                            parse_requirements_txt(requirements_cache[nodes_dict[i].id]))[i]
                    ELSE nodes_dict[i]]
    /\ pc' = "prompt"
    /\ UNCHANGED <<nodes_json, requirements_cache, update_stats, original_json_deps,
                   future_to_node, completed, fetched, dep_analysis, dep_name, result,
                   parseVars>>
    /\ UnchangedExcept("update")

\* lines 966-1003: the statistics, the snapshot of the dependencies and the tasks;
\* an unknown ID is counted as failed
UpdateNodeRequirements ==
    /\ pc = "prompt"
    /\ \E n \in 1..MaxUpdateIds :
          \E ids \in [1..n -> {NodeIds[i] : i \in 1..(Len(nodes_dict) + 1)}] :
             LET Known(node_id) == \E node \in Range(nodes_dict) : node.id = node_id
                 fetch_tasks == SelectSeq(ids, Known)
             IN /\ update_stats' = [total |-> n, success |-> 0,
                                    failed |-> n - Len(fetch_tasks), unsupported |-> 0,
                                    updated_nodes |-> <<>>]
                /\ original_json_deps' =
                      [node_id \in Range(fetch_tasks) |->
                          LET node == CHOOSE nd \in Range(nodes_dict) : nd.id = node_id
                          IN IF HasLatestVersion(node) THEN node.dependencies ELSE <<>>]
                /\ future_to_node' = fetch_tasks
    /\ completed' = 0
    /\ fetched' = None
    /\ pc' = "fetching"
    /\ UNCHANGED <<nodes_json, requirements_cache, original_deps_backup, aggVars, parseVars>>
    /\ UnchangedExcept("update")

\* lines 1012-1067: one future completes and its result is handled
RequirementsFetched ==
    /\ pc = "fetching"
    /\ \E future \in DOMAIN future_to_node :
       \E node \in {nd \in Range(nodes_dict) : nd.id = future_to_node[future]} :
       \E responses \in RequestsFor(get_raw_file_url(node.repository)) :
       \E outcome \in {fetch_requirements_txt(node.repository, responses)} :
          /\ fetched' = <<node.id, responses>>
          /\ future_to_node' = [k \in DOMAIN future_to_node \ {future} |->
                                   future_to_node[k]]
          /\ IF outcome.success \/ outcome.error = NOT_FOUND
             THEN /\ requirements_cache' =
                        IF outcome.success
                        THEN [k \in DOMAIN requirements_cache \cup {node.id} |->
                                 IF k = node.id THEN outcome.content
                                 ELSE requirements_cache[k]]
                        ELSE [k \in DOMAIN requirements_cache \ {node.id} |->
                                 requirements_cache[k]]
                  /\ original_deps_backup' =
                        IF node.id \in DOMAIN original_deps_backup
                        THEN original_deps_backup
                        ELSE original_deps_backup @@ (node.id :> original_json_deps[node.id])
                  /\ nodes_dict' =
                        SetDependencies(nodes_dict, node.id,
                           IF outcome.success
                           THEN parse_requirements_txt(outcome.content) ELSE <<>>)
                  /\ update_stats' =
                        [update_stats EXCEPT !.success = @ + 1,
                                             !.updated_nodes = Append(@, node.id)]
             ELSE /\ update_stats' = CountFailure(update_stats, outcome.error)
                  /\ UNCHANGED <<requirements_cache, original_deps_backup, nodes_dict>>
    /\ completed' = completed + 1
    /\ UNCHANGED <<nodes_json, original_json_deps, pc, dep_analysis, dep_name, result,
                   parseVars>>
    /\ UnchangedExcept("update")

\* line 1069: the statistics are returned and the locals of the call are gone
UpdateReturns ==
    /\ pc = "fetching"
    /\ DOMAIN future_to_node = {}
    /\ original_json_deps' = EmptyDict
    /\ completed' = 0
    /\ fetched' = None
    /\ pc' = "updated"
    /\ UNCHANGED <<aggVars, parseVars, nodes_json, requirements_cache,
                   original_deps_backup, update_stats, future_to_node>>
    /\ UnchangedExcept("update")

\* lines 1902-1909 and 1779: the caller prints the statistics, or drops them, and the
\* loop comes back to the prompt
SummaryPrinted ==
    /\ pc = "updated"
    /\ update_stats' = None
    /\ pc' = "prompt"
    /\ UNCHANGED <<aggVars, parseVars, nodes_json, requirements_cache,
                   original_deps_backup, original_json_deps, future_to_node,
                   completed, fetched>>
    /\ UnchangedExcept("update")

\* '/update' (lines 1408-1427): the registry is fetched and saved and nodes_dict is read
\* again from the saved file; when the fetch or the save fails nothing changes.
RegistryUpdate ==
    /\ pc = "prompt"
    /\ \E saved \in BOOLEAN :
          IF saved
          THEN /\ \E deps \in [1..Len(nodes_json) -> {<<>>, << <<"a">> >>}] :
                     nodes_json' = [i \in 1..Len(nodes_json) |->
                                      [nodes_json[i] EXCEPT
                                          !.dependencies =
                                              IF HasLatestVersion(nodes_json[i])
                                              THEN deps[i] ELSE @]]
               /\ nodes_dict' = nodes_json'
          ELSE UNCHANGED <<nodes_json, nodes_dict>>
    /\ pc' = "prompt"
    /\ UNCHANGED <<requirements_cache, original_deps_backup, update_stats,
                   original_json_deps, future_to_node, completed, fetched,
                   dep_analysis, dep_name, result, parseVars>>
    /\ UnchangedExcept("update")

SpecUpdate ==
    InitUpdate /\ [][ \/ LoadAllCachedRequirements
                      \/ UpdateNodeRequirements
                      \/ RequirementsFetched
                      \/ UpdateReturns
                      \/ SummaryPrinted
                      \/ RegistryUpdate ]_vars

(***************************************************************************)
(* Reference notions for the aggregation layer                             *)
(***************************************************************************)
\* the dependency lines of an entity (none when the record is malformed)
LinesOf(node) ==
    IF node.lv = "ok" /\ node.deps_kind = "list" THEN node.dependencies ELSE <<>>

Compiled == pc = "compiled"

\* the positions <<entity, line>> of the lines of the entity set that satisfy Keep
LinePositions(nodes, Keep(_)) ==
    UNION {{<<i, j>> : j \in {k \in 1..Len(LinesOf(nodes[i])) : Keep(LinesOf(nodes[i])[k])}} :
             i \in 1..Len(nodes)}

\* the subsequence of the elements of q that satisfy Keep
Filter(q, Keep(_)) ==
    LET kept == {i \in 1..Len(q) : Keep(q[i])}
    IN [k \in 1..Cardinality(kept) |->
          q[CHOOSE i \in kept : Cardinality({j \in kept : j <= i}) = k]]

\* the entity set with only the lines that satisfy Keep
KeepLines(nodes, Keep(_)) ==
    [i \in 1..Len(nodes) |->
        IF nodes[i].deps_kind = "list"
        THEN [nodes[i] EXCEPT !.dependencies = Filter(@, Keep)]
        ELSE nodes[i]]

WithIds(da) == {da.nodes_with_dependencies[i].id : i \in 1..Len(da.nodes_with_dependencies)}
WithoutIds(da) == Range(da.nodes_without_dependencies)

\* C1: total_nodes of analyze_specific_dependency(E, q) is the number of active lines
\* over all entities of E whose base name equals q compared case-insensitively,
\* base names that keep upper-case letters (git+ URLs) included.
C1_TotalNodesCaseInsensitive ==
    pc = "analyzed" =>
        LET Hit(d) == /\ IsActiveLine(d)
                      /\ Lower(parse_dependency_string(d).base_name) = Lower(dep_name)
        IN result.total_nodes = Cardinality(LinePositions(nodes_dict, Hit))

\* C2: compile_dependencies places every entity in exactly one of
\* nodes_with_dependencies and nodes_without_dependencies, and the two counts add up
\* to the number of entities.
C2_Partition ==
    Compiled =>
        /\ WithIds(dep_analysis) \cap WithoutIds(dep_analysis) = {}
        /\ WithIds(dep_analysis) \cup WithoutIds(dep_analysis)
              = {nodes_dict[i].id : i \in 1..Len(nodes_dict)}
        /\ Cardinality(WithIds(dep_analysis)) = Len(dep_analysis.nodes_with_dependencies)
        /\ Cardinality(WithoutIds(dep_analysis)) = Len(dep_analysis.nodes_without_dependencies)
        /\ dep_analysis.nodes_with_deps_count = Len(dep_analysis.nodes_with_dependencies)
        /\ dep_analysis.nodes_without_deps_count = Len(dep_analysis.nodes_without_dependencies)
        /\ dep_analysis.nodes_with_deps_count + dep_analysis.nodes_without_deps_count
              = Len(nodes_dict)

C2_Witness ==
    /\ pc = "compiled"
    /\ Len(nodes_dict) = 2
    /\ nodes_dict[1].dependencies = << <<"#", "a">> >>
    /\ dep_analysis.nodes_with_deps_count = 1
    /\ dep_analysis.nodes_without_deps_count = 1

\* an entity with at least one line, all of whose lines are flags
FlagOnly(node) ==
    /\ LinesOf(node) # <<>>
    /\ \A j \in 1..Len(LinesOf(node)) : IsFlagLine(LinesOf(node)[j])

NotFlag(d) == ~IsFlagLine(d)

\* C3 (as stated): an entity whose lines are all flags is not placed in the 'without
\* dependencies' partition: the flags are appended to its active-dependency list, and
\* they add nothing to the base-name usage table.
C3_FlagOnlyHasActiveDeps ==
    Compiled =>
        /\ \A i \in 1..Len(nodes_dict) :
              FlagOnly(nodes_dict[i]) =>
                 /\ nodes_dict[i].id \notin WithoutIds(dep_analysis)
                 /\ nodes_dict[i].id \in WithIds(dep_analysis)
        /\ dep_analysis.dependency_count
              = compile_dependencies(KeepLines(nodes_dict, NotFlag)).dependency_count

\* C3 (amended): an entity whose lines are all flags is placed in the 'without
\* dependencies' partition: the flags are recorded in its pip-command entry only, its
\* active-dependency list stays empty, and the flags add nothing to the base-name
\* usage table.
C3_FlagOnlyHasNoActiveDeps ==
    Compiled =>
        /\ \A i \in 1..Len(nodes_dict) :
              FlagOnly(nodes_dict[i]) =>
                 /\ nodes_dict[i].id \in WithoutIds(dep_analysis)
                 /\ nodes_dict[i].id \notin WithIds(dep_analysis)
                 /\ \E k \in 1..Len(dep_analysis.nodes_with_pip_commands) :
                       /\ dep_analysis.nodes_with_pip_commands[k].id = nodes_dict[i].id
                       /\ dep_analysis.nodes_with_pip_commands[k].active_deps = <<>>
                       /\ dep_analysis.nodes_with_pip_commands[k].pip_commands
                             = [j \in 1..Len(LinesOf(nodes_dict[i])) |->
                                  Trim(LinesOf(nodes_dict[i])[j])]
        /\ dep_analysis.dependency_count
              = compile_dependencies(KeepLines(nodes_dict, NotFlag)).dependency_count
        /\ dep_analysis.dependency_versions
              = compile_dependencies(KeepLines(nodes_dict, NotFlag)).dependency_versions

C3_Witness ==
    /\ pc = "compiled"
    /\ Len(nodes_dict) = 2
    /\ nodes_dict[1].dependencies = << <<"-", "-", "a">> >>
    /\ nodes_dict[2].dependencies = << <<"-", "-", "a">>, <<"A", "=", "a">> >>
    /\ dep_analysis.nodes_without_dependencies = <<"n1">>
    /\ dep_analysis.pip_command_count[<<"-", "-", "a">>] = 2

NotSkipped(d) == ~parse_dependency_string(d).skip

NotBlank(d) == ~(parse_dependency_string(d).skip /\ ~parse_dependency_string(d).is_comment)

CommentFields ==
    {"commented_dependencies", "unique_commented_dependencies",
     "nodes_with_commented_dependencies", "nodes_with_commented_count"}

OtherFields(da) == [f \in (DOMAIN da) \ CommentFields |-> da[f]]

\* C10 (as stated): a line classified with skip = true contributes to no aggregate of
\* compile_dependencies: the result is the one the entity set gives without its
\* skip lines.
C10_SkipContributesNothing ==
    Compiled => dep_analysis = compile_dependencies(KeepLines(nodes_dict, NotSkipped))

\* C10 (amended): a line classified with skip = true changes no usage count, no
\* versions set, no total and no active, flag or VCS list, nor the with / without
\* partition; a skip line that is not a comment changes nothing at all, and a comment
\* line is recorded only in the commented-dependency lists.
C10_SkipContributesOnlyComments ==
    Compiled =>
        /\ dep_analysis = compile_dependencies(KeepLines(nodes_dict, NotBlank))
        /\ OtherFields(dep_analysis)
              = OtherFields(compile_dependencies(KeepLines(nodes_dict, NotSkipped)))

C10_Witness ==
    /\ pc = "compiled"
    /\ Len(nodes_dict) = 2
    /\ nodes_dict[1].dependencies = << <<>>, <<"#", "a">> >>
    /\ nodes_dict[2].dependencies = << <<"A", "=", "a">> >>
    /\ dep_analysis.total_dependencies = 1
    /\ dep_analysis.commented_dependencies = << <<"#", "a">> >>

\* C11: for every base name b, dependency_count[b] of compile_dependencies is the
\* number of active lines with base name b over all entities, every line counted (an
\* entity declaring b on two lines adds two); only such base names are keys.
C11_UsageCount ==
    pc = "compiled" =>
        \* named: the active lines of the entity set, each position with its base name
        \A named \in {{<<pos, parse_dependency_string(
                                  LinesOf(nodes_dict[pos[1]])[pos[2]]).base_name>> :
                          pos \in LinePositions(nodes_dict, IsActiveLine)}} :
           LET names == {t[2] : t \in named}
           IN /\ DOMAIN dep_analysis.dependency_count = names
              /\ \A b \in names :
                    dep_analysis.dependency_count[b]
                       = Cardinality({t \in named : t[2] = b})

C11_Witness ==
    /\ pc = "compiled"
    /\ Len(nodes_dict) = 2
    /\ nodes_dict[1].dependencies = << <<"A", "=", "a">>, <<"A", "=", "a">> >>
    /\ nodes_dict[2].dependencies = << <<"A", "=", "a">> >>
    /\ dep_analysis.dependency_count[<<"a">>] = 3

\* the text of a comment line after its leading '#'
AfterHash(d) == SubSeq(Trim(d), 2, Len(Trim(d)))

\* a comment line whose text after the '#', classified again, names q
MentionsCommented(d, q) ==
    /\ IsCommentLine(d)
    /\ Lower(parse_dependency_string(AfterHash(d)).base_name) = Lower(q)

NamesActive(d, q) ==
    /\ IsActiveLine(d)
    /\ Lower(parse_dependency_string(d).base_name) = Lower(q)

UsingIds(rep) == {rep.nodes_using[k].node_id : k \in 1..Len(rep.nodes_using)}

\* C12: every comment line (leading whitespace or not) whose text after the leading
\* '#', classified again, has the query as base name (case-insensitively) is recorded
\* with its entity in nodes_with_commented; an entity with the dependency active on one
\* line and commented on another appears in nodes_using and in nodes_with_commented.
C12_CommentedRecorded ==
    pc = "analyzed" =>
        \A i \in 1..Len(nodes_dict) :
           /\ \A j \in 1..Len(LinesOf(nodes_dict[i])) :
                 MentionsCommented(LinesOf(nodes_dict[i])[j], dep_name) =>
                    \E k \in 1..Len(result.nodes_with_commented) :
                       /\ result.nodes_with_commented[k].node_id = nodes_dict[i].id
                       /\ result.nodes_with_commented[k].commented_spec
                             = LinesOf(nodes_dict[i])[j]
           /\ ( /\ \E j \in 1..Len(LinesOf(nodes_dict[i])) :
                      MentionsCommented(LinesOf(nodes_dict[i])[j], dep_name)
                /\ \E j \in 1..Len(LinesOf(nodes_dict[i])) :
                      NamesActive(LinesOf(nodes_dict[i])[j], dep_name) )
                => nodes_dict[i].id \in UsingIds(result)

\* the base names of the active lines of the entity set
ActiveBaseNames(nodes) ==
    {parse_dependency_string(LinesOf(nodes[pos[1]])[pos[2]]).base_name :
       pos \in LinePositions(nodes, IsActiveLine)}

\* C13: the keys of analyze_wildcard_dependencies are exactly the distinct active base
\* names of the set that glob-match the pattern case-insensitively, and each key maps
\* to the report analyze_specific_dependency gives for that base name.
C13_WildcardKeys ==
    pc = "matched" =>
        /\ DOMAIN wildcard_results
              = {b \in ActiveBaseNames(nodes_dict) : fnmatchcase(Lower(b), Lower(pattern))}
        /\ \A b \in DOMAIN wildcard_results :
              wildcard_results[b] = analyze_specific_dependency(nodes_dict, b)

\* some entity declares q: on an active line, or on a commented-out one
Declares(nodes, q) ==
    \E i \in 1..Len(nodes) : \E j \in 1..Len(LinesOf(nodes[i])) :
       \/ NamesActive(LinesOf(nodes[i])[j], q)
       \/ MentionsCommented(LinesOf(nodes[i])[j], q)

\* C14: a query that matches nothing gives an empty result, not an error:
\* analyze_wildcard_dependencies returns the empty mapping when no active base name
\* matches the pattern, and analyze_specific_dependency returns total_nodes = 0 and
\* commented_count = 0 with empty lists for a name no entity declares, for every
\* entity set, the empty one included.
C14_NothingFoundIsEmpty ==
    /\ pc = "matched" =>
          ( (\A b \in ActiveBaseNames(nodes_dict) : ~fnmatchcase(Lower(b), Lower(pattern)))
               => wildcard_results = <<>> )
    /\ pc = "analyzed" =>
          ( ~Declares(nodes_dict, dep_name) =>
               /\ result.dependency_name = dep_name
               /\ result.total_nodes = 0
               /\ result.commented_count = 0
               /\ result.nodes_using = <<>>
               /\ result.nodes_with_commented = <<>>
               /\ result.all_versions = <<>>
               /\ result.unique_versions = {}
               /\ result.version_count = <<>>
               /\ result.sorted_versions = <<>> )

C14_Witness ==
    /\ pc = "matched"
    /\ pattern = <<"c", "*">>
    /\ Len(nodes_dict) = 2
    /\ nodes_dict[1].dependencies = << <<"a">> >>
    /\ nodes_dict[2].dependencies = << <<"#", "b">> >>
    /\ wildcard_results = <<>>

\* the download count of an entity, a missing one read as 0
DownloadCount(node) == IF node.downloads = NoDownloads THEN 0 ELSE node.downloads

\* C15: calculate_node_ranks maps the entity IDs one-to-one onto 1..n, and an entity
\* with more downloads (a missing count read as 0) has a smaller rank.
C15_RanksByDownloads ==
    pc = "ranked" =>
        LET n == Len(nodes_dict) IN
        /\ DOMAIN full_rank_map = {nodes_dict[i].id : i \in 1..n}
        /\ {full_rank_map[nodes_dict[i].id] : i \in 1..n} = 1..n
        /\ \A i, j \in 1..n :
              i # j => full_rank_map[nodes_dict[i].id] # full_rank_map[nodes_dict[j].id]
        /\ \A i, j \in 1..n :
              DownloadCount(nodes_dict[i]) > DownloadCount(nodes_dict[j])
                 => full_rank_map[nodes_dict[i].id] < full_rank_map[nodes_dict[j].id]

\* downloads [100, 50, 200] give the ranks 2, 3, 1
C15_Witness ==
    /\ pc = "ranked"
    /\ Len(nodes_dict) = 3
    /\ nodes_dict[1].downloads = 100
    /\ nodes_dict[2].downloads = 50
    /\ nodes_dict[3].downloads = 200
    /\ full_rank_map = ("n1" :> 2) @@ ("n2" :> 3) @@ ("n3" :> 1)

\* the cleaned_str of every non-skip line of a dependency list
CleanedOf(deps) ==
    LET kept == Filter(deps, NotSkipped)
    IN [k \in 1..Len(kept) |-> parse_dependency_string(kept[k]).cleaned_str]

BaseNamesOf(deps) ==
    DOMAIN compile_dependencies(<<Node(NodeIds[1], 1, "ok", "list", deps)>>).dependency_count

\* C16: for every requirements text T and L = parse_requirements_txt(T), aggregating
\* an entity whose dependency list is L gives the same set of base names as
\* aggregating an entity whose list is the cleaned_str of every non-skip line of L.
C16_CleanedListSameBaseNames ==
    (Compiled /\ new_deps # None) =>
        /\ new_deps = parse_requirements_txt(content)
        /\ nodes_dict[1].dependencies = new_deps
        /\ DOMAIN dep_analysis.dependency_count = BaseNamesOf(CleanedOf(new_deps))

C16_Witness ==
    /\ pc = "compiled"
    /\ content = <<"A", "#", "\n", "-", "-">>
    /\ new_deps = << <<"A", "#">>, <<"-", "-">> >>
    /\ CleanedOf(new_deps) = << <<"A">>, <<"-", "-">> >>
    /\ DOMAIN dep_analysis.dependency_count = {<<"a">>}

\* a record without a usable dependency list
Malformed(node) ==
    \/ node.lv # "ok"
    \/ node.deps_kind # "list"
    \/ node.dependencies = <<>>

WithoutFields == {"nodes_without_dependencies", "nodes_without_deps_count"}

TablesBesidesWithout(da) == [f \in (DOMAIN da) \ WithoutFields |-> da[f]]

WellFormedOnly(nodes) ==
    LET Good(node) == ~Malformed(node) IN Filter(nodes, Good)

IdsIn(table) == {table[k].id : k \in 1..Len(table)}

\* C17: an entity with no latest_version, a null or empty latest_version, no
\* dependencies field, or a dependencies value that is null, empty or not a list is
\* placed in nodes_without_dependencies and contributes to no other table of
\* compile_dependencies.
C17_MalformedGoesToWithout ==
    Compiled =>
        /\ \A i \in 1..Len(nodes_dict) :
              Malformed(nodes_dict[i]) =>
                 /\ nodes_dict[i].id \in WithoutIds(dep_analysis)
                 /\ nodes_dict[i].id \notin
                       IdsIn(dep_analysis.nodes_with_dependencies)
                         \cup IdsIn(dep_analysis.nodes_with_commented_dependencies)
                         \cup IdsIn(dep_analysis.nodes_with_pip_commands)
                         \cup IdsIn(dep_analysis.nodes_with_git_dependencies)
        /\ TablesBesidesWithout(dep_analysis)
              = TablesBesidesWithout(compile_dependencies(WellFormedOnly(nodes_dict)))

C17_Witness ==
    /\ pc = "compiled"
    /\ Len(nodes_dict) = 2
    /\ nodes_dict[1].deps_kind = "str"
    /\ nodes_dict[1].dependencies = <<"a">>
    /\ nodes_dict[2].dependencies = << <<"A", "=", "a">> >>
    /\ dep_analysis.nodes_without_dependencies = <<"n1">>
    /\ dep_analysis.dependency_count = (<<"a">> :> 1)

\* the normal form of a repository URL: lower-cased, trailing slash, protocol,
\* host prefix and .git suffix removed
WithoutPrefix(s, p) == IF StartsWith(s, p) THEN SubSeq(s, Len(p) + 1, Len(s)) ELSE s

WithoutSuffix(s, p) ==
    IF Len(s) >= Len(p) /\ SubSeq(s, Len(s) - Len(p) + 1, Len(s)) = p
    THEN SubSeq(s, 1, Len(s) - Len(p)) ELSE s

NormalForm(url) ==
    WithoutSuffix(
        WithoutPrefix(
            WithoutPrefix(WithoutPrefix(RStripSlash(Lower(url)),
                                        <<"h", "t", "t", "p", "s", ":", "/", "/">>),
                          <<"h", "t", "t", "p", ":", "/", "/">>),
            GITHUB),
        DOTGIT)

\* the feed repositories whose URL has the normal form of the entity's
MatchingFeeds(node) ==
    {k \in 1..Len(all_data) : NormalForm(all_data[k].repo) = NormalForm(node.repository)}

\* the attributes of an entity: the keys of the node after load_csv_data_to_nodes,
\* the _stats mapping after load_all_node_stats
Attributes(node) ==
    IF pc = "csv_loaded" THEN node.keys
    ELSE node.stats

\* C18: after load_csv_data_to_nodes / load_all_node_stats an entity carries the
\* attribute key exactly when some feed repository URL has the same normal form as
\* the entity's repository URL; the value is the sorted, duplicate-free file-path
\* list of a matching feed repository, and get_node_stat_count returns its length,
\* or 0 when the key is absent.
C18_AttributeIffSameNormalForm ==
    pc \in {"csv_loaded", "stats_loaded"} =>
        \A i \in 1..Len(stat_nodes) :
           LET node == stat_nodes[i] IN
           /\ node_key \in DOMAIN Attributes(node) <=> MatchingFeeds(node) # {}
           /\ node_key \in DOMAIN Attributes(node) =>
                 /\ \E k \in MatchingFeeds(node) :
                       Attributes(node)[node_key] = SortedPaths(all_data[k].files)
                 /\ get_node_stat_count(node, node_key) = Len(Attributes(node)[node_key])
           /\ node_key \notin DOMAIN Attributes(node) =>
                 get_node_stat_count(node, node_key) = 0

AllFailed(log) == \A i \in 1..Len(log) : log[i] \in {"timeout", "error"}

\* C20: fetch_page(page, retries = k) issues at most k requests, returns the response
\* of the first request that succeeds and issues no request after it, and returns
\* None exactly when all k requests have failed (by timeout or any other error).
C20_FetchPageRetries ==
    pc \in {"fetching", "returned"} =>
        /\ Len(requests) <= retries
        /\ \A i \in 1..(Len(requests) - 1) : requests[i] # "ok"
        /\ pc = "fetching" => returned = NoValue /\ AllFailed(requests)
        /\ pc = "returned" =>
              /\ returned \in {None, Response(page_num)}
              /\ returned = Response(page_num) <=>
                    (requests # <<>> /\ requests[Len(requests)] = "ok")
              /\ returned = None <=> (Len(requests) = retries /\ AllFailed(requests))
        /\ (retries > 0 /\ Len(requests) = retries /\ AllFailed(requests))
              => (pc = "returned" /\ returned = None)

C20_Witness ==
    /\ pc = "returned"
    /\ retries = 3
    /\ requests = <<"timeout", "error", "ok">>
    /\ returned = Response(page_num)

\* the node IDs a page of the registry holds
PageIds(page) == Range(registry[page]) \ {NOID}

\* C19: when every page fetch succeeds, the set of node IDs returned by
\* get_registry_nodes_concurrent is the union of the node IDs of pages 1..totalPages,
\* for every max_workers >= 1 and every order in which the fetches complete (so the
\* number of nodes does not depend on the worker count).
C19_AllPagesCollected ==
    (pc = "done" /\ gave_up = {}) =>
        /\ total_pages = Len(registry)
        /\ DOMAIN fetched_nodes = UNION {PageIds(p) : p \in 1..total_pages}
        /\ \A id \in DOMAIN fetched_nodes : id \in PageIds(fetched_nodes[id])

C19_Witness ==
    /\ pc = "done"
    /\ gave_up = {}
    /\ max_workers = 2
    /\ registry = << <<"x">>, <<"x", "y">>, <<"z", NOID>> >>
    /\ DOMAIN fetched_nodes = {"x", "y", "z"}
    /\ fetched_nodes["x"] = 2

\* the pages whose last call of fetch_page gave the page's JSON
PagesStored == {p \in DOMAIN page_calls :
                  page_calls[p] # <<>> /\ page_calls[p][Len(page_calls[p])] = "json"}

\* what get_registry_nodes_concurrent has done when it returns
ReturnedAfterFailures ==
    IF page_calls[1] = <<"none">>
    THEN \* page 1 failed: no node, and no other page was fetched
         /\ DOMAIN fetched_nodes = {}
         /\ \A p \in DOMAIN page_calls \ {1} : page_calls[p] = <<>>
    ELSE /\ page_calls[1] = <<"json">>
         \* one concurrent fetch per page, and one sequential retry iff it failed
         /\ \A p \in 2..Len(registry) :
               page_calls[p] \in {<<"json">>, <<"none", "json">>, <<"none", "none">>}
         \* the pages that failed twice are dropped, the others are all stored
         /\ DOMAIN fetched_nodes = UNION {PageIds(p) : p \in PagesStored}
         /\ \A id \in DOMAIN fetched_nodes :
               fetched_nodes[id] \in PagesStored /\ id \in PageIds(fetched_nodes[id])

\* C21: for every pattern of request failures get_registry_nodes_concurrent eventually
\* returns; it returns no node without fetching further pages when page 1 fails, and
\* otherwise every page 2..totalPages is fetched once in the pool, a page that failed
\* there is retried exactly once more, and a page that fails again is dropped.
C21_ReturnsAfterFailures ==
    /\ <>(pc = "done")
    /\ [](pc = "done" => ReturnedAfterFailures)

C21_Witness ==
    /\ pc = "done"
    /\ registry = << <<"x">>, <<"x", "y">>, <<"z", NOID>> >>
    /\ page_calls = << <<"json">>, <<"none", "none">>, <<"none", "json">> >>
    /\ DOMAIN fetched_nodes = {"x", "z"}

\* the IDs of a sequence of entities
Ids(nodes) == {nodes[i].id : i \in 1..Len(nodes)}

\* C22: '&top N' restricts the working set by downloads: for N > 0 it is made of
\* min(N, |S|) entities of S, none of them with fewer downloads than an entity left
\* out; for N < 0 of min(|N|, |S|) entities, none with more downloads than an entity
\* left out; the analysis of that query lists entities of the working set only.
C22_TopRestrictsWorkingSet ==
    (top_n # None /\ top_n[2] # 0) =>
        LET N == top_n[2]
            S == selected_nodes
            W == working_nodes
            size == IF N > 0 THEN N ELSE 0 - N
        IN /\ Range(W) \subseteq Range(S)
           /\ Cardinality(Ids(W)) = Len(W)
           /\ Len(W) = IF size < Len(S) THEN size ELSE Len(S)
           /\ \A w \in Range(W) : \A s \in Range(S) \ Range(W) :
                 IF N > 0 THEN DownloadCount(w) >= DownloadCount(s)
                 ELSE DownloadCount(w) <= DownloadCount(s)
           /\ pc = "analyzed" =>
                 /\ \A k \in 1..Len(result.nodes_using) :
                       result.nodes_using[k].node_id \in Ids(W)
                 /\ LET Hit(d) == NamesActive(d, dep_name)
                    IN result.total_nodes = Cardinality(LinePositions(W, Hit))
           /\ pc = "matched" =>
                 \A key \in DOMAIN wildcard_results :
                    \A k \in 1..Len(wildcard_results[key].nodes_using) :
                       wildcard_results[key].nodes_using[k].node_id \in Ids(W)

C22_Witness ==
    /\ top_n = <<"top", 1>>
    /\ Len(nodes_dict) = 2
    /\ nodes_dict[1].downloads = 0
    /\ nodes_dict[2].downloads = 50
    /\ nodes_dict[1].dependencies = << <<"b">> >>
    /\ nodes_dict[2].dependencies = << <<"b">> >>
    /\ selected_nodes = nodes_dict
    /\ Ids(working_nodes) = {"n2"}
    /\ dep_name = <<"B">>
    /\ pc = "analyzed"
    /\ result.total_nodes = 1

\* C28: for N > 0 every entity of the '&top N' working set has the same rank from
\* calculate_node_ranks over the working set as over the set S it was taken from, equal
\* download counts included; the ranks shown in the query's report are those ranks.
C28_TopKeepsRanks ==
    (top_n # None /\ top_n[2] > 0) =>
        /\ \A id \in Ids(working_nodes) :
              calculate_node_ranks(working_nodes)[id]
                 = calculate_node_ranks(selected_nodes)[id]
        /\ pc = "analyzed" =>
              \A k \in 1..Len(result.nodes_using) :
                 result.nodes_using[k].rank
                    = calculate_node_ranks(selected_nodes)[result.nodes_using[k].node_id]

C28_Witness ==
    /\ top_n = <<"top", 1>>
    /\ pc = "analyzed"
    /\ Len(nodes_dict) = 2
    /\ nodes_dict[1].downloads = 50
    /\ nodes_dict[2].downloads = 50
    /\ nodes_dict[1].dependencies = << <<"b">> >>
    /\ selected_nodes = << nodes_dict[2], nodes_dict[1] >>
    /\ Ids(working_nodes) = {"n2"}
    /\ result.nodes_using[1].rank = 1

\* C23: whenever a dependency-name query is resolved, the lookup table it uses is the
\* one compile_dependencies gives for the entity set the query operates on, whatever
\* queries came before; so a query without modifiers uses the table of the whole set.
C23_TableOfWorkingSet ==
    pc \in {"analyzed", "no_match"} =>
        /\ dep_analysis.dependency_count
              = compile_dependencies(working_nodes).dependency_count
        /\ (top_n = None /\ selected_nodes = nodes_dict) =>
              dep_analysis = compile_dependencies(nodes_dict)

\* a GitHub repository URL https://github.com/<user>/<repo>, optionally followed by
\* .git and / or a slash, for the user u and a repository name made of letters
RepoPath(url) ==
    WithoutPrefix(WithoutSuffix(WithoutSuffix(url, <<"/">>), DOTGIT), HTTPS_GITHUB)

IsRepoUrl(url) ==
    /\ StartsWith(url, HTTPS_GITHUB)
    /\ StartsWith(RepoPath(url), <<"u", "/">>)
    /\ Len(RepoPath(url)) > 2
    /\ \A k \in 3..Len(RepoPath(url)) : RepoPath(url)[k] \in {"r", "t"}

\* C25: for a GitHub repository URL get_raw_file_url returns the two URLs
\* https://raw.githubusercontent.com/<user>/<repo>/main/requirements.txt and
\* .../master/requirements.txt, in that order, with <user>/<repo> unchanged; it returns
\* None for an empty, 'N/A' or non-GitHub URL.
C25_RawUrls ==
    pc = "raw_urls" =>
        /\ IsRepoUrl(repository_url) =>
              /\ raw_urls # None
              /\ Len(raw_urls) = 2
              /\ raw_urls[1] = Flatten(<< <<"h", "t", "t", "p", "s", ":", "/", "/">>,
                                           <<"r", "a", "w", ".">>,
                                           <<"g", "i", "t", "h", "u", "b">>,
                                           <<"u", "s", "e", "r">>,
                                           <<"c", "o", "n", "t", "e", "n", "t">>,
                                           <<".", "c", "o", "m", "/">>,
                                           RepoPath(repository_url),
                                           <<"/", "m", "a", "i", "n", "/">>,
                                           <<"r", "e", "q", "u", "i", "r", "e">>,
                                           <<"m", "e", "n", "t", "s", ".", "t", "x", "t">> >>)
              /\ raw_urls[2] = Flatten(<< <<"h", "t", "t", "p", "s", ":", "/", "/">>,
                                           <<"r", "a", "w", ".">>,
                                           <<"g", "i", "t", "h", "u", "b">>,
                                           <<"u", "s", "e", "r">>,
                                           <<"c", "o", "n", "t", "e", "n", "t">>,
                                           <<".", "c", "o", "m", "/">>,
                                           RepoPath(repository_url),
                                           <<"/", "m", "a", "s", "t", "e", "r", "/">>,
                                           <<"r", "e", "q", "u", "i", "r", "e">>,
                                           <<"m", "e", "n", "t", "s", ".", "t", "x", "t">> >>)
        /\ (repository_url \in {<<>>, NA}
              \/ ~Contains(repository_url, <<"g", "i", "t", "h", "u", "b", ".", "c", "o", "m">>))
              => raw_urls = None

\* C29: every entry of the mapping returned by analyze_wildcard_dependencies has
\* total_nodes >= 1: the report of a matched base name lists at least one entity.
C29_MatchedNamesAreUsed ==
    pc = "matched" =>
        \A base_dep \in DOMAIN wildcard_results :
           Len(wildcard_results[base_dep].nodes_using) >= 1

\* C30: the universe of base names collected by analyze_wildcard_dependencies and by
\* calculate_cumulative_dependencies equals the key set of dependency_count returned by
\* compile_dependencies for the same set, and every such key is a non-empty string.
C30_UniverseIsKeySet ==
    pc = "matched" =>
        /\ all_base_deps(nodes_dict) = DOMAIN dep_analysis.dependency_count
        /\ unique_deps(nodes_dict) = DOMAIN dep_analysis.dependency_count
        /\ \A base_name \in DOMAIN dep_analysis.dependency_count : base_name # <<>>

\* every request of the handled future ended in a timeout or another RequestException
NetworkFailure(requested) ==
    /\ requested # <<>>
    /\ \A k \in 1..Len(requested) : requested[k][1] = "raised"

\* C24: when the fetch of a node's requirements.txt fails because of a network error or
\* a timeout, update_node_requirements counts the node as failed and leaves its
\* dependency list, its flag, its backup entry and the cache as they are; only a missing
\* file replaces the dependencies with the empty list. A step that raises completed
\* handles one future; the failure taken here is the plain one, where no request was
\* answered at all.
C24_NetworkErrorLeavesNode ==
    [][ (completed' = completed + 1 /\ NetworkFailure(fetched'[2])) =>
          /\ nodes_dict' = nodes_dict
          /\ original_deps_backup' = original_deps_backup
          /\ requirements_cache' = requirements_cache
          /\ update_stats'.failed = update_stats.failed + 1
          /\ update_stats'.success = update_stats.success ]_vars

\* C26: whenever a node is flagged _updated_from_requirements, original_deps_backup
\* holds an entry for it, the entry is the dependency list the node has in the loaded
\* registry data, and an existing entry is never overwritten.
C26_BackupIsRegistryData ==
    /\ [](\A i \in 1..Len(nodes_dict) :
             nodes_dict[i].updated_from_requirements =>
                /\ nodes_dict[i].id \in DOMAIN original_deps_backup
                /\ original_deps_backup[nodes_dict[i].id] = nodes_json[i].dependencies)
    /\ [][\A node_id \in DOMAIN original_deps_backup :
             /\ node_id \in DOMAIN original_deps_backup'
             /\ original_deps_backup'[node_id] = original_deps_backup[node_id]]_vars

\* C27: the statistics update_node_requirements returns satisfy
\* success + failed = total and unsupported <= failed, and updated_nodes has exactly
\* 'success' entries, each the ID of a node of nodes_dict.
C27_StatsAddUp ==
    pc = "updated" =>
        /\ update_stats.success + update_stats.failed = update_stats.total
        /\ update_stats.unsupported <= update_stats.failed
        /\ Len(update_stats.updated_nodes) = update_stats.success
        /\ \A k \in 1..Len(update_stats.updated_nodes) :
              update_stats.updated_nodes[k] \in Ids(nodes_dict)

\* a call with an unknown ID and a node whose dependencies were replaced by the empty list
C27_Witness ==
    /\ pc = "updated"
    /\ update_stats.total = 2
    /\ update_stats.success = 1
    /\ update_stats.failed = 1
    /\ update_stats.unsupported = 0
    /\ update_stats.updated_nodes = <<"n1">>
    /\ nodes_dict[1].updated_from_requirements
    /\ nodes_dict[1].dependencies = <<>>
    /\ nodes_json[1].dependencies # <<>>

====
